---------------------------- MODULE Spec2Model ----------------------------
(***************************************************************************)
(* A model of docfind's core library (src/core/src/lib.rs): the FSST       *)
(* string column, build_index, the postcard round trip of the Index and    *)
(* search.                                                                 *)
(*                                                                         *)
(* A string is a sequence of Unicode scalar values (code points); its      *)
(* bytes are its UTF-8 encoding.  A byte is a number in 0..255.            *)
(***************************************************************************)
EXTENDS Integers, Sequences, FiniteSets, TLC

(***************************************************************************)
(* Text: the operations of Rust's str and char that the library calls.     *)
(***************************************************************************)

\* Readable literals: Str(<<"a", "B", " ">>) is the string "aB ".
CodeOf ==
    [ a |-> 97, b |-> 98, c |-> 99, B |-> 66, C |-> 67,
      sp |-> 32, dash |-> 45, slash |-> 47,
      Sigma |-> 931, sigma |-> 963, fsigma |-> 962 ]

Lit(ch) ==
    CASE ch = " " -> CodeOf.sp
      [] ch = "-" -> CodeOf.dash
      [] ch = "/" -> CodeOf.slash
      [] OTHER -> CodeOf[ch]

Str(chars) == [i \in 1..Len(chars) |-> Lit(chars[i])]

\* char::is_whitespace
IsWhitespace(ch) == ch \in {9, 10, 11, 12, 13, 32}

\* char::is_alphanumeric, on ASCII and the Greek block
IsAlphanumeric(ch) ==
    \/ ch \in 48..57
    \/ ch \in 65..90
    \/ ch \in 97..122
    \/ ch \in 913..929
    \/ ch \in 931..937
    \/ ch \in 945..969

\* The Unicode property Cased, on ASCII and the Greek block
IsCased(ch) ==
    \/ ch \in 65..90
    \/ ch \in 97..122
    \/ ch \in 913..929
    \/ ch \in 931..937
    \/ ch \in 945..969

\* char::to_lowercase, for every character but capital sigma
CharToLower(ch) ==
    IF ch \in 65..90 \/ ch \in 913..929 \/ ch \in 931..937 THEN ch + 32 ELSE ch

\* str::to_lowercase: character by character, except that a capital sigma
\* becomes the final sigma when it ends a word (a cased letter before it,
\* none after it) and the small sigma otherwise.
ToLowercase(s) ==
    [i \in 1..Len(s) |->
        IF s[i] = 931
        THEN IF /\ i > 1 /\ IsCased(s[i - 1])
                /\ ~(i < Len(s) /\ IsCased(s[i + 1]))
             THEN 962
             ELSE 963
        ELSE CharToLower(s[i])]

\* str::trim_matches(|c| !c.is_alphanumeric())
TrimNonAlnum(s) ==
    LET keep == {i \in 1..Len(s) : IsAlphanumeric(s[i])}
    IN IF keep = {} THEN <<>>
       ELSE LET lo == CHOOSE i \in keep : \A j \in keep : i <= j
                hi == CHOOSE i \in keep : \A j \in keep : j <= i
            IN SubSeq(s, lo, hi)

\* str::split_whitespace: the maximal runs of non-whitespace, in order
RECURSIVE SplitFrom(_, _)
SplitFrom(s, i) ==
    IF i > Len(s) THEN <<>>
    ELSE IF IsWhitespace(s[i]) THEN SplitFrom(s, i + 1)
    ELSE LET stops == {j \in i..Len(s) : IsWhitespace(s[j])}
             e == IF stops = {} THEN Len(s) + 1
                  ELSE CHOOSE j \in stops : \A k \in stops : j <= k
         IN <<SubSeq(s, i, e - 1)>> \o SplitFrom(s, e)

SplitWhitespace(s) == SplitFrom(s, 1)

\* The number of bytes of one scalar in UTF-8
Utf8Width(ch) ==
    IF ch < 128 THEN 1 ELSE IF ch < 2048 THEN 2 ELSE IF ch < 65536 THEN 3 ELSE 4

\* str::len: the length in bytes
RECURSIVE ByteLen(_)
ByteLen(s) == IF s = <<>> THEN 0 ELSE Utf8Width(Head(s)) + ByteLen(Tail(s))

\* str::as_bytes: the UTF-8 encoding (scalars below 0x800)
RECURSIVE AsBytes(_)
AsBytes(s) ==
    IF s = <<>> THEN <<>>
    ELSE LET ch == Head(s)
         IN (IF ch < 128 THEN <<ch>>
             ELSE <<192 + (ch \div 64), 128 + (ch % 64)>>) \o AsBytes(Tail(s))

\* String::from_utf8: the scalars of a UTF-8 byte string (and whether it is one)
RECURSIVE Utf8Valid(_)
Utf8Valid(bs) ==
    IF bs = <<>> THEN TRUE
    ELSE IF bs[1] < 128 THEN Utf8Valid(Tail(bs))
    ELSE /\ bs[1] \in 194..223
         /\ Len(bs) >= 2
         /\ bs[2] \in 128..191
         /\ Utf8Valid(SubSeq(bs, 3, Len(bs)))

RECURSIVE FromUtf8(_)
FromUtf8(bs) ==
    IF bs = <<>> THEN <<>>
    ELSE IF bs[1] < 128 THEN <<bs[1]>> \o FromUtf8(Tail(bs))
    ELSE <<(bs[1] - 192) * 64 + (bs[2] - 128)>> \o FromUtf8(SubSeq(bs, 3, Len(bs)))

\* The order of str (byte-wise, which is the order of the scalars)
RECURSIVE StrLess(_, _)
StrLess(s, t) ==
    IF t = <<>> THEN FALSE
    ELSE IF s = <<>> THEN TRUE
    ELSE IF Head(s) /= Head(t) THEN Head(s) < Head(t)
    ELSE StrLess(Tail(s), Tail(t))

IsPrefix(p, s) == Len(p) <= Len(s) /\ SubSeq(s, 1, Len(p)) = p

\* Levenshtein distance at most 1, counted in scalars: equal, one
\* substitution, one insertion or one deletion.
DropAt(s, i) == SubSeq(s, 1, i - 1) \o SubSeq(s, i + 1, Len(s))

WithinEdit1(s, t) ==
    \/ s = t
    \/ Len(s) = Len(t) /\ \E i \in 1..Len(s) : DropAt(s, i) = DropAt(t, i)
    \/ Len(s) = Len(t) + 1 /\ \E i \in 1..Len(s) : DropAt(s, i) = t
    \/ Len(t) = Len(s) + 1 /\ \E i \in 1..Len(t) : DropAt(t, i) = s


(***************************************************************************)
(* Small sequence helpers.                                                 *)
(***************************************************************************)

Min(x, y) == IF x <= y THEN x ELSE y

Range(s) == {s[i] : i \in 1..Len(s)}

RECURSIVE Concat(_)
Concat(ss) == IF ss = <<>> THEN <<>> ELSE Head(ss) \o Concat(Tail(ss))

\* All sequences over S of length at most n
SeqsUpTo(S, n) == UNION {[1..k -> S] : k \in 0..n}

\* slice::sort_by and sort_by_key are stable: an element goes behind every
\* element that is less than it and behind the earlier elements it ties with.
StableSort(s, Less(_, _)) ==
    LET pos(i) == 1 + Cardinality({j \in 1..Len(s) :
                        \/ Less(s[j], s[i])
                        \/ ~Less(s[i], s[j]) /\ j < i})
    IN [p \in 1..Len(s) |-> s[CHOOSE i \in 1..Len(s) : pos(i) = p]]

(***************************************************************************)
(* FsstStrVec (lib.rs 6-82).  The fsst crate is modelled by what its       *)
(* codec does: a symbol table of byte strings of 1 to 8 bytes, code c <    *)
(* 255 standing for symbol c, and code 255 escaping one literal byte.      *)
(***************************************************************************)

MaxSymbols == 2      \* symbols in a trained table
MaxSymbolLen == 2    \* bytes in a trained symbol

EscapeCode == 255
SymbolBytes == 8

\* All contiguous byte strings of length n of bs
Substrings(bs, n) == {SubSeq(bs, i, i + n - 1) : i \in 1..(Len(bs) - n + 1)}

\* What a trained table can hold: byte strings that occur in the sample.
CandidateSymbols(sample) ==
    UNION {Substrings(sample[i], n) : i \in 1..Len(sample), n \in 1..MaxSymbolLen}

\* Every table the trainer can return for the sample, within the bounds:
\* distinct symbols taken from the sample, in any order.
SymbolTables(sample) ==
    {t \in SeqsUpTo(CandidateSymbols(sample), MaxSymbols) :
        \A i, j \in 1..Len(t) : i /= j => t[i] /= t[j]}

\* Occurrences of sym in the sample
Occurrences(sample, sym) ==
    Cardinality({<<i, j>> \in (1..Len(sample)) \X (1..64) :
                    /\ j + Len(sym) - 1 <= Len(sample[i])
                    /\ SubSeq(sample[i], j, j + Len(sym) - 1) = sym})

BytesLess(s, t) == StrLess(s, t)

\* fsst::Compressor::train is a function of the sample: the symbols of the
\* longest trained length that occur more than once, the most frequent
\* first, at most MaxSymbols of them.
RECURSIVE TrainPick(_, _, _)
TrainPick(sample, cands, n) ==
    IF n = 0 \/ cands = {} THEN <<>>
    ELSE LET best == CHOOSE x \in cands : \A y \in cands :
                        \/ Occurrences(sample, x) > Occurrences(sample, y)
                        \/ /\ Occurrences(sample, x) = Occurrences(sample, y)
                           /\ (x = y \/ BytesLess(x, y))
         IN <<best>> \o TrainPick(sample, cands \ {best}, n - 1)

Train(sample) ==
    TrainPick(sample,
              {x \in CandidateSymbols(sample) :
                  Len(x) = MaxSymbolLen /\ Occurrences(sample, x) > 1},
              MaxSymbols)

\* Symbol::to_u64 then u64::to_le_bytes: the symbol's bytes, zero-padded to 8
SymbolToLeBytes(sym) == [i \in 1..SymbolBytes |-> IF i <= Len(sym) THEN sym[i] ELSE 0]

\* Compressor::compress: at each position the longest symbol that matches
\* (the first such in the table), else an escape and the literal byte.
RECURSIVE Compress(_, _)
Compress(table, bs) ==
    IF bs = <<>> THEN <<>>
    ELSE LET hits == {c \in 1..Len(table) : IsPrefix(table[c], bs)}
         IN IF hits = {}
            THEN <<EscapeCode, Head(bs)>> \o Compress(table, Tail(bs))
            ELSE LET c == CHOOSE x \in hits : \A y \in hits :
                              \/ Len(table[x]) > Len(table[y])
                              \/ Len(table[x]) = Len(table[y]) /\ x <= y
                 IN <<c - 1>> \o Compress(table, SubSeq(bs, Len(table[c]) + 1, Len(bs)))

\* Decompressor::decompress: a code below 255 gives its symbol's first
\* lens[code] bytes, an escape gives the byte that follows it.
RECURSIVE Decompress(_, _, _)
Decompress(syms, lens, codes) ==
    IF codes = <<>> THEN <<>>
    ELSE IF Head(codes) = EscapeCode
    THEN IF Len(codes) >= 2
         THEN <<codes[2]>> \o Decompress(syms, lens, SubSeq(codes, 3, Len(codes)))
         ELSE <<>>
    ELSE LET c == Head(codes) + 1
         IN (IF c <= Len(syms) /\ c <= Len(lens)
             THEN SubSeq(syms[c], 1, lens[c])
             ELSE <<>>) \o Decompress(syms, lens, Tail(codes))

\* The vector before any string is pushed (lib.rs 30-31, 39-49): the
\* dictionary of the trained table, no offsets and no data.
EmptyVec(table) ==
    [ dict_syms |-> [c \in 1..Len(table) |-> SymbolToLeBytes(table[c])],
      dict_lens |-> [c \in 1..Len(table) |-> Len(table[c])],
      offsets   |-> <<>>,
      data      |-> <<>> ]

\* One turn of the loop of from_strings (lib.rs 32-36).  `data.len() as u32`
\* keeps the length: the data of the model is far shorter than 2^32 bytes.
PushString(vec, table, s) ==
    [vec EXCEPT !.offsets = @ \o <<Len(vec.data)>>,
                !.data = @ \o Compress(table, AsBytes(s))]

RECURSIVE PushAll(_, _, _)
PushAll(vec, table, strings) ==
    IF strings = <<>> THEN vec
    ELSE PushAll(PushString(vec, table, Head(strings)), table, Tail(strings))

\* FsstStrVec::from_strings with the table the trainer returned
FromStrings(strings, table) == PushAll(EmptyVec(table), table, strings)

\* FsstStrVec::len
VecLen(vec) == Len(vec.offsets)

None == [tag |-> "None"]
Some(v) == [tag |-> "Some", value |-> v]
Panic == [tag |-> "Panic"]

\* Mutant of the slice: every item taken to run to the end of the data
CodesToEnd(vec, i) == SubSeq(vec.data, vec.offsets[i + 1] + 1, Len(vec.data))

\* The slice of code bytes that get(i) decodes (lib.rs 62-68), i from 0
CodesOf(vec, i) ==
    LET start == vec.offsets[i + 1]
        end == IF i + 1 < VecLen(vec) THEN vec.offsets[i + 2] ELSE Len(vec.data)
    IN SubSeq(vec.data, start + 1, end)

\* FsstStrVec::get (lib.rs 58-81), i from 0
VecGet(vec, i) ==
    IF i >= VecLen(vec) THEN None
    ELSE LET bytes == Decompress(vec.dict_syms, vec.dict_lens, CodesOf(vec, i))
         IN IF Utf8Valid(bytes) THEN Some(FromUtf8(bytes)) ELSE Panic

(***************************************************************************)
(* The keyword map.  The fst crate is modelled by what the library uses    *)
(* of it: a map from byte strings to numbers, built from keys in strictly  *)
(* increasing order, stored as bytes, and streamed in key order.  The      *)
(* stored form is one length-prefixed key and its value per entry.         *)
(***************************************************************************)

\* MapBuilder::insert for every entry, then into_inner (lib.rs 222, 235)
RECURSIVE FstBuild(_)
FstBuild(entries) ==
    IF entries = <<>> THEN <<>>
    ELSE <<Len(Head(entries).key)>> \o Head(entries).key \o <<Head(entries).value>>
         \o FstBuild(Tail(entries))

\* Whether fst::Map::new accepts the bytes (lib.rs 256)
RECURSIVE FstValid(_)
FstValid(bytes) ==
    IF bytes = <<>> THEN TRUE
    ELSE /\ Len(bytes) >= bytes[1] + 2
         /\ FstValid(SubSeq(bytes, bytes[1] + 3, Len(bytes)))

\* The entries of the map fst::Map::new returns, in key order
RECURSIVE FstEntries(_)
FstEntries(bytes) ==
    IF bytes = <<>> THEN <<>>
    ELSE <<[key |-> SubSeq(bytes, 2, bytes[1] + 1), value |-> bytes[bytes[1] + 2]]>>
         \o FstEntries(SubSeq(bytes, bytes[1] + 3, Len(bytes)))

\* Levenshtein::new(query_word, 1) accepts a key (lib.rs 274)
LevMatches(query_word, key) ==
    Utf8Valid(key) /\ WithinEdit1(query_word, FromUtf8(key))

\* Mutant of the prefix automaton: Str::new(query_word) without starts_with()
ExactMatches(query_word, key) == AsBytes(query_word) = key

\* Str::new(query_word).starts_with() accepts a key (lib.rs 275)
PrefixMatches(query_word, key) == IsPrefix(AsBytes(query_word), key)

(***************************************************************************)
(* build_index (lib.rs 117-243)                                            *)
(***************************************************************************)

\* english.stop, lower-cased (lib.rs 121-125)
StopWords == {Str(<<"a">>)}

ExplicitScore == 100
TitleScore == 90
SingleWordBudget == 5
DoubleWordBudget == 3
ScoreUnit == 10      \* an f64 score s is held as the integer 10 * s

\* Normalisation of an explicit keyword or a title word (lib.rs 147-149, 163-164)
Normalize(w) == ToLowercase(TrimNonAlnum(w))

\* The explicit keywords of a document (lib.rs 145-156)
RECURSIVE ExplicitKeywords(_, _)
ExplicitKeywords(kw, seen) ==
    IF kw = <<>> THEN <<>>
    ELSE LET keyword == Normalize(Head(kw))
         IN IF keyword /= <<>> /\ keyword \notin StopWords /\ keyword \notin seen
            THEN <<[keyword |-> keyword, score |-> ExplicitScore * ScoreUnit]>>
                 \o ExplicitKeywords(Tail(kw), seen \cup {keyword})
            ELSE ExplicitKeywords(Tail(kw), seen)

\* The title keywords of a document, as the set title_keywords (lib.rs 159-167)
TitleKeywordSet(title) ==
    {w \in {Normalize(x) : x \in Range(SplitWhitespace(title))} :
        w /= <<>> /\ w \notin StopWords}

\* The loop over title_keywords (lib.rs 169-174), the set taken in the order
\* `order` (a sequence that lists it)
RECURSIVE TitleKeywords(_, _)
TitleKeywords(order, seen) ==
    IF order = <<>> THEN <<>>
    ELSE IF Head(order) \notin seen
    THEN <<[keyword |-> Head(order), score |-> TitleScore * ScoreUnit]>>
         \o TitleKeywords(Tail(order), seen \cup {Head(order)})
    ELSE TitleKeywords(Tail(order), seen)

\* A sequence that lists a set of strings (the least string first)
RECURSIVE SetToSeq(_)
SetToSeq(S) ==
    IF S = {} THEN <<>>
    ELSE LET x == CHOOSE y \in S : \A z \in S : y = z \/ StrLess(y, z)
         IN <<x>> \o SetToSeq(S \ {x})

\* str::matches(' ').count()
SpaceCount(s) == Cardinality({i \in 1..Len(s) : s[i] = 32})

\* The loop over body_keywords (lib.rs 177-204)
RECURSIVE BodyKeywords(_, _, _, _)
BodyKeywords(body_keywords, seen, single_word_budget, double_word_budget) ==
    IF body_keywords = <<>> THEN <<>>
    ELSE LET k == Head(body_keywords)
             keyword == ToLowercase(k.keyword)
             whitespace_count == SpaceCount(k.keyword)
             rest == Tail(body_keywords)
         IN IF keyword \in seen
            THEN BodyKeywords(rest, seen, single_word_budget, double_word_budget)
            ELSE IF whitespace_count = 0 /\ single_word_budget > 0
            THEN <<[keyword |-> keyword, score |-> k.score]>>
                 \o (IF single_word_budget - 1 = 0 /\ double_word_budget = 0
                     THEN <<>>
                     ELSE BodyKeywords(rest, seen \cup {keyword},
                                       single_word_budget - 1, double_word_budget))
            ELSE IF whitespace_count = 1 /\ double_word_budget > 0
            THEN <<[keyword |-> keyword, score |-> k.score]>>
                 \o (IF single_word_budget = 0 /\ double_word_budget - 1 = 0
                     THEN <<>>
                     ELSE BodyKeywords(rest, seen \cup {keyword},
                                       single_word_budget, double_word_budget - 1))
            ELSE BodyKeywords(rest, seen, single_word_budget, double_word_budget)

KeywordsOf(list) == {list[i].keyword : i \in 1..Len(list)}

\* The vector `keywords` of one document (lib.rs 141-204).  body_keywords is
\* what rake.run_fragments returned for the body.
DocKeywords(doc, body_keywords) ==
    LET explicit == IF doc.keywords.tag = "Some"
                    THEN ExplicitKeywords(doc.keywords.value, {})
                    ELSE <<>>
        title == TitleKeywords(SetToSeq(TitleKeywordSet(doc.title)), KeywordsOf(explicit))
        body == BodyKeywords(body_keywords, KeywordsOf(explicit) \cup KeywordsOf(title),
                             SingleWordBudget, DoubleWordBudget)
    IN explicit \o title \o body

\* Mutant of the column input: href pushed before category
RECURSIVE ColumnStringsSwapped(_)
ColumnStringsSwapped(documents) ==
    IF documents = <<>> THEN <<>>
    ELSE LET doc == Head(documents)
         IN <<doc.title, doc.href, doc.category, doc.body>>
            \o ColumnStringsSwapped(Tail(documents))

\* The column input `strings` (lib.rs 136-139)
RECURSIVE ColumnStrings(_)
ColumnStrings(documents) ==
    IF documents = <<>> THEN <<>>
    ELSE LET doc == Head(documents)
         IN <<doc.title, doc.category, doc.href, doc.body>> \o ColumnStrings(Tail(documents))

\* Mutant of doc_index_map: documents counted from 1
DocIndexMapFromOne(documents, href) ==
    LET with == {i \in 1..Len(documents) : documents[i].href = href}
    IN CHOOSE i \in with : \A j \in with : j <= i

\* doc_index_map (lib.rs 132, 135): the last document with the href
DocIndexMap(documents, href) ==
    LET with == {i \in 1..Len(documents) : documents[i].href = href}
    IN (CHOOSE i \in with : \A j \in with : j <= i) - 1

\* keywords_to_documents[keyword] (lib.rs 206-211): the documents that
\* produced the keyword, in input order, each with its f64 score
RECURSIVE DocScores(_, _, _, _)
DocScores(documents, rake_out, keyword, i) ==
    IF i > Len(documents) THEN <<>>
    ELSE LET kws == DocKeywords(documents[i], rake_out[i])
             mine == SelectSeq(kws, LAMBDA k : k.keyword = keyword)
         IN [j \in 1..Len(mine) |-> [doc |-> i, score |-> mine[j].score]]
            \o DocScores(documents, rake_out, keyword, i + 1)

\* `score as u8` of an f64: toward zero, saturating at 0 and 255
CastU8(score) ==
    IF score <= 0 THEN 0
    ELSE IF score \div ScoreUnit >= 255 THEN 255
    ELSE score \div ScoreUnit

\* Mutant of the posting list: doc_scores left in insertion order
PostingListUnsorted(documents, rake_out, keyword) ==
    LET doc_scores == DocScores(documents, rake_out, keyword, 1)
    IN [j \in 1..Len(doc_scores) |->
           <<DocIndexMap(documents, documents[doc_scores[j].doc].href),
             CastU8(doc_scores[j].score)>>]

\* The posting list of one keyword (lib.rs 224-230)
PostingList(documents, rake_out, keyword) ==
    LET doc_scores == StableSort(DocScores(documents, rake_out, keyword, 1),
                                 LAMBDA x, y : x.score > y.score)
    IN [j \in 1..Len(doc_scores) |->
           <<DocIndexMap(documents, documents[doc_scores[j].doc].href),
             CastU8(doc_scores[j].score)>>]

\* The sorted keys of keywords_to_documents (lib.rs 218-219)
SortedKeywords(documents, rake_out) ==
    SetToSeq(UNION {KeywordsOf(DocKeywords(documents[i], rake_out[i])) :
                       i \in 1..Len(documents)})

\* build_index, with the symbol table the FSST trainer returned
BuildIndex(documents, rake_out, table) ==
    LET keywords == SortedKeywords(documents, rake_out)
    IN [ fst |-> FstBuild([index \in 1..Len(keywords) |->
                              [key |-> AsBytes(keywords[index]), value |-> index - 1]]),
         document_strings |-> FromStrings(ColumnStrings(documents), table),
         keyword_to_documents |->
             [index \in 1..Len(keywords) |->
                 PostingList(documents, rake_out, keywords[index])] ]

(***************************************************************************)
(* Index::to_bytes and Index::from_bytes (lib.rs 106-115).  postcard's     *)
(* wire format for the derived Serialize of Index: a struct is its fields  *)
(* in order, a Vec is a varint length and its elements, a u8 is one byte,  *)
(* a u32 or usize is a varint (LEB128), an array or tuple is its elements. *)
(***************************************************************************)

RECURSIVE Varint(_)
Varint(n) == IF n < 128 THEN <<n>> ELSE <<128 + (n % 128)>> \o Varint(n \div 128)

\* Mutant of the offsets encoding: every u32 written as four fixed bytes
VecU32Fixed(nums) ==
    Varint(Len(nums))
    \o Concat([i \in 1..Len(nums) |-> <<nums[i] % 256, (nums[i] \div 256) % 256, 0, 0>>])

VecU8(bytes) == Varint(Len(bytes)) \o bytes

VecU32(nums) == Varint(Len(nums)) \o Concat([i \in 1..Len(nums) |-> Varint(nums[i])])

VecSyms(syms) == Varint(Len(syms)) \o Concat(syms)

VecPostings(list) ==
    Varint(Len(list))
    \o Concat([i \in 1..Len(list) |-> Varint(list[i][1]) \o <<list[i][2]>>])

\* Index::to_bytes
ToBytes(index) ==
    VecU8(index.fst)
    \o VecSyms(index.document_strings.dict_syms)
    \o VecU8(index.document_strings.dict_lens)
    \o VecU32(index.document_strings.offsets)
    \o VecU8(index.document_strings.data)
    \o Varint(Len(index.keyword_to_documents))
    \o Concat([i \in 1..Len(index.keyword_to_documents) |->
                  VecPostings(index.keyword_to_documents[i])])

\* A reader returns what it read and the position behind it, or fails.
Fail == [ok |-> FALSE]
Read(v, next) == [ok |-> TRUE, value |-> v, next |-> next]

RECURSIVE ReadVarint(_, _)
ReadVarint(bytes, i) ==
    IF i > Len(bytes) THEN Fail
    ELSE IF bytes[i] < 128 THEN Read(bytes[i], i + 1)
    ELSE LET r == ReadVarint(bytes, i + 1)
         IN IF r.ok THEN Read((bytes[i] - 128) + 128 * r.value, r.next) ELSE Fail

\* n raw bytes
ReadRaw(bytes, i, n) ==
    IF i + n - 1 > Len(bytes) THEN Fail ELSE Read(SubSeq(bytes, i, i + n - 1), i + n)

ReadVecU8(bytes, i) ==
    LET n == ReadVarint(bytes, i)
    IN IF n.ok THEN ReadRaw(bytes, n.next, n.value) ELSE Fail

RECURSIVE ReadSyms(_, _, _)
ReadSyms(bytes, i, n) ==
    IF n = 0 THEN Read(<<>>, i)
    ELSE LET sym == ReadRaw(bytes, i, SymbolBytes)
         IN IF ~sym.ok THEN Fail
            ELSE LET r == ReadSyms(bytes, sym.next, n - 1)
                 IN IF r.ok THEN Read(<<sym.value>> \o r.value, r.next) ELSE Fail

RECURSIVE ReadVarints(_, _, _)
ReadVarints(bytes, i, n) ==
    IF n = 0 THEN Read(<<>>, i)
    ELSE LET x == ReadVarint(bytes, i)
         IN IF ~x.ok THEN Fail
            ELSE LET r == ReadVarints(bytes, x.next, n - 1)
                 IN IF r.ok THEN Read(<<x.value>> \o r.value, r.next) ELSE Fail

RECURSIVE ReadPostings(_, _, _)
ReadPostings(bytes, i, n) ==
    IF n = 0 THEN Read(<<>>, i)
    ELSE LET doc == ReadVarint(bytes, i)
         IN IF ~doc.ok THEN Fail
            ELSE LET score == ReadRaw(bytes, doc.next, 1)
                 IN IF ~score.ok THEN Fail
                    ELSE LET r == ReadPostings(bytes, score.next, n - 1)
                         IN IF r.ok
                            THEN Read(<<<<doc.value, score.value[1]>>>> \o r.value, r.next)
                            ELSE Fail

RECURSIVE ReadPostingLists(_, _, _)
ReadPostingLists(bytes, i, n) ==
    IF n = 0 THEN Read(<<>>, i)
    ELSE LET len == ReadVarint(bytes, i)
         IN IF ~len.ok THEN Fail
            ELSE LET list == ReadPostings(bytes, len.next, len.value)
                 IN IF ~list.ok THEN Fail
                    ELSE LET r == ReadPostingLists(bytes, list.next, n - 1)
                         IN IF r.ok THEN Read(<<list.value>> \o r.value, r.next) ELSE Fail

\* Vec<[u8; 8]>, Vec<u32> and Vec<Vec<(usize, u8)>>: a length, then the elements
ReadVecSyms(bytes, i) ==
    LET n == ReadVarint(bytes, i)
    IN IF n.ok THEN ReadSyms(bytes, n.next, n.value) ELSE Fail

ReadVecU32(bytes, i) ==
    LET n == ReadVarint(bytes, i)
    IN IF n.ok THEN ReadVarints(bytes, n.next, n.value) ELSE Fail

ReadVecLists(bytes, i) ==
    LET n == ReadVarint(bytes, i)
    IN IF n.ok THEN ReadPostingLists(bytes, n.next, n.value) ELSE Fail

\* The fields of Index in the order of its derived Deserialize (lib.rs 8-15,
\* 95-104): fst, the four fields of document_strings, keyword_to_documents
IndexFields == <<"u8s", "syms", "u8s", "u32s", "u8s", "lists">>

ReadField(bytes, i, kind) ==
    CASE kind = "u8s" -> ReadVecU8(bytes, i)
      [] kind = "syms" -> ReadVecSyms(bytes, i)
      [] kind = "u32s" -> ReadVecU32(bytes, i)
      [] kind = "lists" -> ReadVecLists(bytes, i)

RECURSIVE ReadFields(_, _, _)
ReadFields(bytes, i, kinds) ==
    IF kinds = <<>> THEN Read(<<>>, i)
    ELSE LET x == ReadField(bytes, i, Head(kinds))
         IN IF ~x.ok THEN Fail
            ELSE LET r == ReadFields(bytes, x.next, Tail(kinds))
                 IN IF r.ok THEN Read(<<x.value>> \o r.value, r.next) ELSE Fail

\* Index::from_bytes: Ok(index) or Err
FromBytes(bytes) ==
    LET r == ReadFields(bytes, 1, IndexFields)
    IN IF r.ok
       THEN [ok |-> TRUE,
             value |-> [ fst |-> r.value[1],
                         document_strings |->
                             [ dict_syms |-> r.value[2],
                               dict_lens |-> r.value[3],
                               offsets |-> r.value[4],
                               data |-> r.value[5] ],
                         keyword_to_documents |-> r.value[6] ]]
       ELSE Fail

(***************************************************************************)
(* search (lib.rs 245-340)                                                 *)
(***************************************************************************)

U8Max == 255
SlotsPerDocument == 4

Ok(v) == [tag |-> "Ok", value |-> v]
Err(msg) == [tag |-> "Err", msg |-> msg]

\* The set query_words (lib.rs 258-267)
QueryWords(query) ==
    {w \in {Normalize(x) : x \in Range(SplitWhitespace(query))} : w /= <<>>}
    \cup {ToLowercase(query)}

\* Mutant of the union: the hits of the two automata one after the other, a
\* key that both accept twice
ConcatStreams(map, query_word) ==
    SelectSeq(map, LAMBDA e : LevMatches(query_word, e.key))
    \o SelectSeq(map, LAMBDA e : PrefixMatches(query_word, e.key))

\* The union stream of one query word (lib.rs 274-286): every key that the
\* Levenshtein or the prefix automaton accepts, once, in key order
UnionStream(map, query_word) ==
    SelectSeq(map, LAMBDA e : LevMatches(query_word, e.key) \/ PrefixMatches(query_word, e.key))

\* The pairs the while loop pushes for one query word (lib.rs 282-286)
WordHits(map, query_word) ==
    LET stream == UnionStream(map, query_word)
    IN [i \in 1..Len(stream) |->
           [keyword |-> FromUtf8(stream[i].key), index |-> stream[i].value]]

\* Whether String::from_utf8 succeeds on every streamed key (lib.rs 283)
WordHitsValid(map, query_word) ==
    LET stream == UnionStream(map, query_word)
    IN \A i \in 1..Len(stream) : Utf8Valid(stream[i].key)

\* keywords.sort_by_key(|(kw, _)| kw.len()) (lib.rs 290)
SortByLen(keywords) ==
    StableSort(keywords, LAMBDA x, y : ByteLen(x.keyword) < ByteLen(y.keyword))

\* Mutants of the addition: wrapping, and unchecked
WrappingAdd(x, y) == (x + y) % 256
UncheckedAdd(x, y) == x + y

\* u8::saturating_add
SaturatingAdd(x, y) == Min(x + y, U8Max)

\* The inner loop of the posting merge (lib.rs 297-300)
RECURSIVE MergePosting(_, _)
MergePosting(documents, list) ==
    IF list = <<>> THEN documents
    ELSE LET document_index == Head(list)[1]
             score == Head(list)[2]
             entry == IF document_index \in DOMAIN documents
                      THEN documents[document_index] ELSE 0
         IN MergePosting((document_index :> SaturatingAdd(entry, score)) @@ documents,
                         Tail(list))

\* Mutants of the comparator: ascending scores; no tie-break on the index
RankBeforeAscending(a, b) == a[2] < b[2] \/ (a[2] = b[2] /\ a[1] < b[1])
RankBeforeNoTieBreak(a, b) == a[2] > b[2]

\* The comparator of the ranking sort (lib.rs 305): a goes before b
RankBefore(a, b) == a[2] > b[2] \/ (a[2] = b[2] /\ a[1] < b[1])

\* sort_by and truncate (lib.rs 305-306) of the vector collected from the map
RankAndTruncate(vec, max_results) ==
    LET sorted == StableSort(vec, RankBefore)
    IN SubSeq(sorted, 1, Min(max_results, Len(sorted)))

\* Every order in which a map's entries can be iterated
Orders(S) == {o \in [1..Cardinality(S) -> S] : \A i, j \in DOMAIN o : i /= j => o[i] /= o[j]}

\* The reconstruction loop (lib.rs 308-337)
RECURSIVE Reconstruct(_, _)
Reconstruct(column, ranked) ==
    IF ranked = <<>> THEN Ok(<<>>)
    ELSE LET document_index == Head(ranked)[1]
             slot(j) == VecGet(column, document_index * SlotsPerDocument + j)
             rest == Reconstruct(column, Tail(ranked))
         IN IF \E j \in 0..3 : slot(j).tag = "Panic" THEN Panic
            ELSE IF slot(0).tag = "None" THEN Err("Failed to get document title")
            ELSE IF slot(1).tag = "None" THEN Err("Failed to get document category")
            ELSE IF slot(2).tag = "None" THEN Err("Failed to get document href")
            ELSE IF slot(3).tag = "None" THEN Err("Failed to get document body")
            ELSE IF rest.tag /= "Ok" THEN rest
            ELSE Ok(<<[ title |-> slot(0).value,
                        category |-> slot(1).value,
                        href |-> slot(2).value,
                        body |-> slot(3).value,
                        keywords |-> None ]>> \o rest.value)

(***************************************************************************)
(* The assembler of the CLI (cli main.rs 105-326).  A module is the        *)
(* sequence of its sections as wasmparser yields them: a section the code  *)
(* keeps raw carries its id and bytes; the export and global sections      *)
(* carry, beside their bytes, what their readers yield.  A constant        *)
(* expression is the sequence of its operators, minus the final end.       *)
(***************************************************************************)

PageSize == 65536    \* 0x10000

\* The serialized index (main.rs 234).  The assembler reads its length and
\* copies it whole, so it is held as its length and a seed that gives its
\* bytes.
RawIndex(len) == [len |-> len, seed |-> 7]

\* Byte i, from 0, of the serialized index
RawIndexByte(raw, i) == (raw.seed * (i + 1)) % 251

I32Const(v) == <<[op |-> "i32.const", value |-> v]>>

\* A wasmparser::DataKind::Passive segment and an Active one
PassiveSegment(data) == [kind |-> "Passive", data |-> data]
ActiveSegment(memory_index, offset_expr, data) ==
    [kind |-> "Active", memory_index |-> memory_index,
     offset_expr |-> offset_expr, data |-> data]

\* Mutant of the byte order: the most significant byte first
ToBeBytes(n) ==
    <<(n \div 16777216) % 256, (n \div 65536) % 256, (n \div 256) % 256, n % 256>>

\* i32::to_le_bytes (main.rs 285, 289), for a value from 0 below 2^31
ToLeBytes(n) ==
    <<n % 256, (n \div 256) % 256, (n \div 65536) % 256, (n \div 16777216) % 256>>

\* The operators convert_const_expr has an arm for (main.rs 37-66)
HandledOperators ==
    {"i32.const", "i64.const", "f32.const", "f64.const", "global.get", "ref.null", "ref.func"}

\* Mutant of the conversion: every expression taken for an unhandled one
ConvertConstExprRaw(expr) == <<>>

\* convert_const_expr (main.rs 29-75): the first operator alone when it is
\* one of the handled ones, the empty expression otherwise.
ConvertConstExpr(expr) ==
    IF expr /= <<>> /\ expr[1].op \in HandledOperators THEN <<expr[1]>> ELSE <<>>

\* i32const_offset (main.rs 142-148)
I32ConstOffset(offset_expr) ==
    IF offset_expr /= <<>> /\ offset_expr[1].op = "i32.const"
    THEN Some(offset_expr[1].value) ELSE None

\* One data segment as the parsing loop stores it (main.rs 133-157)
ParseSegment(data) ==
    IF data.kind = "Passive"
    THEN [kind |-> "Passive", data |-> data.data]
    ELSE [kind |-> "Active", memory_index |-> data.memory_index,
          offset |-> ConvertConstExpr(data.offset_expr), data |-> data.data,
          i32const_offset |-> I32ConstOffset(data.offset_expr)]

\* One payload as the parsing loop stores it in `sections` (main.rs 127-174)
ParseSection(payload) ==
    CASE payload.sec = "Data" ->
            [sec |-> "Data",
             segments |-> [i \in 1..Len(payload.segments) |-> ParseSegment(payload.segments[i])]]
      [] payload.sec = "DataCount" -> [sec |-> "DataCount", count |-> payload.count]
      [] payload.sec = "Memory" -> [sec |-> "Memory"]
      [] OTHER -> [sec |-> "Raw", id |-> payload.id, data |-> payload.data]

\* old_memory_page_count after the loop (main.rs 108, 163-166): the initial
\* size of the last memory read, 0 when there is none.
RECURSIVE OldMemoryPageCount(_)
OldMemoryPageCount(module) ==
    IF module = <<>> THEN 0
    ELSE LET last == module[Len(module)]
         IN IF last.sec = "Memory" /\ last.memories /= <<>>
            THEN last.memories[Len(last.memories)].initial
            ELSE OldMemoryPageCount(SubSeq(module, 1, Len(module) - 1))

\* The last export of the name, over the export sections (main.rs 177-186)
AllExports(module) ==
    Concat([i \in 1..Len(module) |->
               IF module[i].sec = "Export" THEN module[i].exports ELSE <<>>])

ExportIndex(module, name) ==
    LET exports == AllExports(module)
        at == {i \in 1..Len(exports) : exports[i].name = name}
    IN IF at = {} THEN None
       ELSE Some(exports[CHOOSE i \in at : \A j \in at : j <= i].index)

\* i32_globals (main.rs 187-198): position in the global section to the
\* value of an initializer whose first operator is i32.const.
I32Globals(module) ==
    LET inits == Concat([i \in 1..Len(module) |->
                            IF module[i].sec = "Global" THEN module[i].inits ELSE <<>>])
        keys == {idx \in 0..(Len(inits) - 1) :
                    inits[idx + 1] /= <<>> /\ inits[idx + 1][1].op = "i32.const"}
    IN [idx \in keys |-> inits[idx + 1][1].value]

\* The whole parsing loop (main.rs 123-202) on a module wasmparser accepts
ParseModule(module) ==
    [ sections |-> [i \in 1..Len(module) |-> ParseSection(module[i])],
      old_memory_page_count |-> OldMemoryPageCount(module),
      index_base_global_index |-> ExportIndex(module, "INDEX_BASE"),
      index_len_global_index |-> ExportIndex(module, "INDEX_LEN"),
      i32_globals |-> I32Globals(module) ]

\* main.rs 241, with the mutant that rounds the index up to whole pages
NewMemoryPageCountCeil(old_memory_page_count, raw_index_len) ==
    old_memory_page_count + ((raw_index_len + PageSize - 1) \div PageSize)

\* and the mutant without the page of slack
NewMemoryPageCountNoSlack(old_memory_page_count, raw_index_len) ==
    old_memory_page_count + (raw_index_len \div PageSize)

NewMemoryPageCount(old_memory_page_count, raw_index_len) ==
    old_memory_page_count + (raw_index_len \div PageSize) + 1

\* main.rs 242
IndexBase(old_memory_page_count) == old_memory_page_count * PageSize

\* copy_from_slice into data[at .. at + 4] (main.rs 284-285, 288-289), at
\* from 0; the slice must lie inside data.
WordFits(data, at) == at + 4 <= Len(data)

WriteWord(data, at, word) ==
    [i \in 1..Len(data) |-> IF i > at /\ i <= at + 4 THEN word[i - at] ELSE data[i]]

\* Mutant of the patch: the two words written at each other's place
PatchDataSwapped(data, base_relative_offset, length_relative_offset, index_base, raw_index_len) ==
    WriteWord(WriteWord(data, length_relative_offset, ToLeBytes(index_base)),
              base_relative_offset, ToLeBytes(raw_index_len))

\* The two copy_from_slice calls in their order (main.rs 283-289)
PatchData(data, base_relative_offset, length_relative_offset, index_base, raw_index_len) ==
    WriteWord(WriteWord(data, base_relative_offset, ToLeBytes(index_base)),
              length_relative_offset, ToLeBytes(raw_index_len))

InSegment(address, start, end) == address >= start /\ address < end

\* One turn of the loop over data_segments (main.rs 260-298): the segment
\* given to data_section, or a panic (the assert, or a slice out of range).
EncodeSegment(segment, index_base_global_address, index_len_global_address, index_base, raw_index_len) ==
    IF segment.kind = "Passive"
    THEN Ok([kind |-> "Passive", data |-> segment.data])
    ELSE LET start == segment.i32const_offset.value
             end == start + Len(segment.data)
             base_relative_offset == index_base_global_address - start
             length_relative_offset == index_len_global_address - start
             unpatched == Ok([kind |-> "Active", memory_index |-> segment.memory_index,
                              offset |-> segment.offset, data |-> segment.data])
         IN IF segment.i32const_offset = None THEN unpatched
            ELSE IF ~InSegment(index_base_global_address, start, end) THEN unpatched
            ELSE IF ~InSegment(index_len_global_address, start, end) THEN Panic
            ELSE IF ~WordFits(segment.data, base_relative_offset) THEN Panic
            ELSE IF ~WordFits(segment.data, length_relative_offset) THEN Panic
            ELSE Ok([kind |-> "Active", memory_index |-> segment.memory_index,
                     offset |-> segment.offset,
                     data |-> PatchData(segment.data, base_relative_offset,
                                        length_relative_offset, index_base, raw_index_len)])

\* The segment added after the loop (main.rs 301-305)
IndexSegment(index_base, raw_index) ==
    [kind |-> "Active", memory_index |-> 0, offset |-> I32Const(index_base), data |-> raw_index]

\* Mutant of the data count: the count copied as it was
DataCountKept(count) == [sec |-> "DataCount", count |-> count]

\* main.rs 253-255
EncodeDataCount(count) == [sec |-> "DataCount", count |-> count + 1]

\* main.rs 309-319
EncodeMemory(new_memory_page_count) ==
    [sec |-> "Memory",
     memories |-> <<[minimum |-> new_memory_page_count, maximum |-> None,
                     memory64 |-> FALSE, shared |-> FALSE]>>]

\* One turn of the loop over sections (main.rs 251-324)
EncodeSection(section, base_address, len_address, index_base, new_memory_page_count, raw_index) ==
    CASE section.sec = "DataCount" -> Ok(EncodeDataCount(section.count))
      [] section.sec = "Memory" -> Ok(EncodeMemory(new_memory_page_count))
      [] section.sec = "Raw" -> Ok([sec |-> "Raw", id |-> section.id, data |-> section.data])
      [] section.sec = "Data" ->
            LET encoded == [i \in 1..Len(section.segments) |->
                               EncodeSegment(section.segments[i], base_address, len_address,
                                             index_base, raw_index.len)]
            IN IF \E i \in 1..Len(encoded) : encoded[i] = Panic THEN Panic
               ELSE Ok([sec |-> "Data",
                        segments |-> [i \in 1..Len(encoded) |-> encoded[i].value]
                                     \o <<IndexSegment(index_base, raw_index)>>])

\* The encoder loop and encoder.finish() (main.rs 241-242, 249-326)
EncodeModule(parsed, base_address, len_address, raw_index) ==
    LET index_base == IndexBase(parsed.old_memory_page_count)
        new_memory_page_count ==
            NewMemoryPageCount(parsed.old_memory_page_count, raw_index.len)
        encoded == [i \in 1..Len(parsed.sections) |->
                       EncodeSection(parsed.sections[i], base_address, len_address,
                                     index_base, new_memory_page_count, raw_index)]
    IN IF \E i \in 1..Len(encoded) : encoded[i] = Panic THEN Panic
       ELSE Ok([i \in 1..Len(encoded) |-> encoded[i].value])

\* The segments of a module, over its data sections, in order
SegmentsOf(module) ==
    Concat([i \in 1..Len(module) |->
               IF module[i].sec = "Data" THEN module[i].segments ELSE <<>>])

MemoriesOf(module) ==
    Concat([i \in 1..Len(module) |->
               IF module[i].sec = "Memory" THEN module[i].memories ELSE <<>>])

\* What wasmparser's validator checks of the parts the assembler rewrites
\* (main.rs 327): the memory limits, the declared data count, and every
\* active segment's memory and offset expression.
MaxPages == 65536

Validate(wasm) ==
    /\ \A i \in 1..Len(MemoriesOf(wasm)) : MemoriesOf(wasm)[i].minimum <= MaxPages
    /\ \A i \in 1..Len(wasm) :
          wasm[i].sec = "DataCount" => wasm[i].count = Len(SegmentsOf(wasm))
    /\ \A i \in 1..Len(SegmentsOf(wasm)) :
          LET segment == SegmentsOf(wasm)[i]
          IN segment.kind = "Active" =>
                /\ segment.memory_index < Len(MemoriesOf(wasm))
                /\ Len(segment.offset) = 1
                /\ segment.offset[1].op = "i32.const"

(***************************************************************************)
(* The state machine: a document list is read, the index is built, a query *)
(* is run step by step, the index may go through to_bytes and from_bytes,  *)
(* and a second query (the same, or the same in another letter case) is    *)
(* run on the result.                                                      *)
(***************************************************************************)

MaxDocs == 2         \* documents in the input list
MaxResults == 2      \* the largest max_results
MaxTrips == 2        \* serialisation round trips between the two runs

VARIABLES
    docs,           \* the Vec<Document> given to build_index
    rake_out,       \* per document, what rake.run_fragments returns for its body
    pc,             \* "input", "ready", "lookup", "sort", "merge", "rank", "done"
    built,          \* the Index build_index returned
    index,          \* the Index the queries run on
    trips,          \* how often index went through to_bytes and from_bytes
    load_failed,    \* whether a from_bytes returned Err
    query,          \* search's argument query
    max_results,    \* search's argument max_results
    map,            \* the entries of fst::Map::new(&index.fst)
    query_words,    \* the query words not yet iterated
    keywords,       \* the vector of (keyword, index) hits
    hit_pos,        \* how many entries of keywords the merge loop has consumed
    documents,      \* the score map
    ranked,         \* the sorted, truncated vector of (document_index, score)
    result,         \* what search returned
    run,            \* 1 for the first query on this index, 2 for the second
    first_query,    \* the query of the first run
    first_result,   \* what the first run returned
    fs_pc,          \* FsstStrVec on its own: "idle", "train", "push", "built"
    fs_strings,     \* the strings given to from_strings
    fs_table,       \* the symbol table the trainer returned
    fs_vec,         \* the FsstStrVec under construction, then built
    fs_got,         \* the latest call of get: its argument and what it returned
    fs_prev,        \* what the call before returned, when it had the same argument
    cli_pc,         \* where main is: "args", "read", ..., "write_wasm", "stopped"
    cli_args,       \* args.len()
    docfind_bg_wasm, \* the embedded module
    raw_index,      \* index.to_bytes()
    parsed,         \* what the loop over the payloads collected
    wasm_bytes,     \* the module encoder.finish() returned
    out_dir,        \* the two files of the output directory
    cli_exit,       \* how main ended
    INDEX,          \* the OnceLock<Index> of the wasm crate
    memory,         \* the bytes at INDEX_BASE .. INDEX_BASE + INDEX_LEN
    call_pc,        \* per caller of the exported search, where it is
    call_index,     \* per caller, the &Index get_or_init gave it
    decodes,        \* how many times Index::from_bytes has run
    ex_pc,          \* keyword extraction of one document: "idle", "explicit", "title", "body", "done"
    ex_doc,         \* the document
    ex_body,        \* body_keywords, what rake.run_fragments returned
    ex_pos,         \* how many items the current loop has taken
    keyword_set,    \* the HashSet keyword_set
    ex_keywords,    \* the Vec keywords of (keyword, score)
    title_keywords, \* what is left to iterate of the HashSet title_keywords
    single_word_budget,
    double_word_budget,
    accepted        \* the positions in body_keywords of the phrases pushed

vars == <<docs, rake_out, pc, built, index, trips, load_failed, query, max_results,
          map, query_words, keywords, hit_pos, documents, ranked, result, run,
          first_query, first_result, fs_pc, fs_strings, fs_table, fs_vec, fs_got, fs_prev,
          cli_pc, cli_args, docfind_bg_wasm, raw_index, parsed, wasm_bytes, out_dir, cli_exit,
          INDEX, memory, call_pc, call_index, decodes,
         ex_pc, ex_doc, ex_body, ex_pos, keyword_set, ex_keywords, title_keywords,
         single_word_budget, double_word_budget, accepted>>

mainVars == <<docs, rake_out, pc, built, index, trips, load_failed, query, max_results,
              map, query_words, keywords, hit_pos, documents, ranked, result, run,
              first_query, first_result>>

fsVars == <<fs_pc, fs_strings, fs_table, fs_vec, fs_got, fs_prev>>

cliVars == <<cli_pc, cli_args, docfind_bg_wasm, raw_index, parsed, wasm_bytes, out_dir, cli_exit>>

wasmVars == <<INDEX, memory, call_pc, call_index, decodes>>

extractVars == <<ex_pc, ex_doc, ex_body, ex_pos, keyword_set, ex_keywords, title_keywords,
                 single_word_budget, double_word_budget, accepted>>

NoIndex == [fst |-> <<>>, document_strings |-> EmptyVec(<<>>), keyword_to_documents |-> <<>>]
NoResult == [tag |-> "None"]

\* The documents of the model, each with the phrases the extractor returns
\* for its body (score in tenths).
DocPool ==
    { [ doc |-> [ title |-> Str(<<"B", "c", " ", "-", "b", " ", "a">>),
                  category |-> Str(<<"c">>),
                  href |-> Str(<<"/", "a">>),
                  body |-> Str(<<"c", " ", "b">>),
                  keywords |-> Some(<<Str(<<"B">>), Str(<<"b", "b", "-">>)>>) ],
        body_keywords |-> <<[keyword |-> Str(<<"c", " ", "b">>), score |-> 45],
                            [keyword |-> Str(<<"b", "c">>), score |-> 10]>> ],
      [ doc |-> [ title |-> Str(<<"b">>),
                  category |-> Str(<<"c">>),
                  href |-> Str(<<"/", "b">>),
                  body |-> Str(<<"c", "b">>),
                  keywords |-> None ],
        body_keywords |-> <<[keyword |-> Str(<<"c", "b">>), score |-> 3000],
                            [keyword |-> Str(<<"c", " ", "b">>), score |-> 48]>> ],
      [ doc |-> [ title |-> Str(<<"b", "Sigma", "C">>),
                  category |-> Str(<<"c">>),
                  href |-> Str(<<"/", "a">>),
                  body |-> <<>>,
                  keywords |-> None ],
        body_keywords |-> <<[keyword |-> Str(<<"c", "b">>), score |-> 3000]>> ] }

\* The queries of the model
QueryPool ==
    { <<>>,
      Str(<<"b">>), Str(<<"B">>),
      Str(<<"b", "c">>),
      Str(<<"C", " ", "-", "b">>),
      Str(<<"c", "c", "c">>),
      Str(<<"b", "sigma">>), Str(<<"b", "Sigma">>) }

\* Two queries that differ only in the letter case of their characters
SameUpToCase(q1, q2) ==
    /\ Len(q1) = Len(q2)
    /\ \A i \in 1..Len(q1) :
        \/ q1[i] = q2[i]
        \/ CharToLower(q1[i]) = q2[i]
        \/ q1[i] = CharToLower(q2[i])

MainInit ==
    /\ docs = <<>>
    /\ rake_out = <<>>
    /\ pc = "input"
    /\ built = NoIndex
    /\ index = NoIndex
    /\ trips = 0
    /\ load_failed = FALSE
    /\ query = <<>>
    /\ max_results = 0
    /\ map = <<>>
    /\ query_words = {}
    /\ keywords = <<>>
    /\ hit_pos = 0
    /\ documents = <<>>
    /\ ranked = <<>>
    /\ result = NoResult
    /\ run = 0
    /\ first_query = <<>>
    /\ first_result = NoResult

NoCall == [tag |-> "None"]

FsIdle ==
    /\ fs_pc = "idle"
    /\ fs_strings = <<>>
    /\ fs_table = <<>>
    /\ fs_vec = EmptyVec(<<>>)
    /\ fs_got = NoCall
    /\ fs_prev = NoCall

WasmIdle ==
    /\ INDEX = [state |-> "uninit", value |-> None]
    /\ memory = <<>>
    /\ call_pc = <<>>
    /\ call_index = <<>>
    /\ decodes = 0

NoFiles == [js |-> "absent", wasm |-> "absent"]

CliIdle ==
    /\ cli_pc = "idle"
    /\ cli_args = 0
    /\ docfind_bg_wasm = <<>>
    /\ raw_index = RawIndex(0)
    /\ parsed = None
    /\ wasm_bytes = None
    /\ out_dir = NoFiles
    /\ cli_exit = "none"

ExtractIdle ==
    /\ ex_pc = "idle"
    /\ ex_doc = None
    /\ ex_body = <<>>
    /\ ex_pos = 0
    /\ keyword_set = {}
    /\ ex_keywords = <<>>
    /\ title_keywords = {}
    /\ single_word_budget = SingleWordBudget
    /\ double_word_budget = DoubleWordBudget
    /\ accepted = {}

Init == MainInit /\ FsIdle /\ CliIdle /\ WasmIdle /\ ExtractIdle

searchVars == <<query, max_results, map, query_words, keywords, hit_pos, documents,
                ranked, result, run, first_query, first_result>>

\* The caller reads one more document (cli main.rs 94)
AddDocument ==
    /\ pc = "input"
    /\ Len(docs) < MaxDocs
    /\ \E d \in DocPool :
        /\ docs' = Append(docs, d.doc)
        /\ rake_out' = Append(rake_out, d.body_keywords)
    /\ UNCHANGED <<pc, built, index, trips, load_failed, searchVars>>
    /\ UNCHANGED <<fsVars, cliVars, wasmVars, extractVars>>

\* build_index(documents) (lib.rs 118-243)
Build ==
    /\ pc = "input"
    /\ LET strings == ColumnStrings(docs)
           sample == [i \in 1..Len(strings) |-> AsBytes(strings[i])]
       IN built' = BuildIndex(docs, rake_out, Train(sample))
    /\ index' = built'
    /\ pc' = "ready"
    /\ UNCHANGED <<docs, rake_out, trips, load_failed, searchVars>>
    /\ UNCHANGED <<fsVars, cliVars, wasmVars, extractVars>>

\* The head of search (lib.rs 256-269)
Begin(q, k) ==
    /\ query' = q
    /\ max_results' = k
    /\ keywords' = <<>>
    /\ hit_pos' = 0
    /\ documents' = <<>>
    /\ ranked' = <<>>
    /\ IF FstValid(index.fst)
       THEN /\ map' = FstEntries(index.fst)
            /\ query_words' = QueryWords(q)
            /\ result' = NoResult
            /\ pc' = "lookup"
       ELSE /\ map' = <<>>
            /\ query_words' = {}
            /\ result' = Err("fst")
            /\ pc' = "done"

\* The first call search(&index, query, max_results)
StartSearch ==
    /\ pc = "ready"
    /\ \E q \in QueryPool, k \in 0..MaxResults : Begin(q, k)
    /\ run' = 1
    /\ UNCHANGED <<docs, rake_out, built, index, trips, load_failed,
                   first_query, first_result>>
    /\ UNCHANGED <<fsVars, cliVars, wasmVars, extractVars>>

\* One turn of the loop over query_words (lib.rs 271-287); the HashSet
\* yields its elements in any order.
LookupWord ==
    /\ pc = "lookup"
    /\ \E query_word \in query_words :
        /\ query_words' = query_words \ {query_word}
        /\ IF WordHitsValid(map, query_word)
           THEN /\ keywords' = keywords \o WordHits(map, query_word)
                /\ pc' = IF query_words' = {} THEN "sort" ELSE "lookup"
                /\ UNCHANGED result
           ELSE /\ result' = Err("utf8")
                /\ pc' = "done"
                /\ UNCHANGED keywords
    /\ UNCHANGED <<docs, rake_out, built, index, trips, load_failed, query, max_results,
                   map, hit_pos, documents, ranked, run, first_query, first_result>>
    /\ UNCHANGED <<fsVars, cliVars, wasmVars, extractVars>>

\* The sort of the hits and the empty score map (lib.rs 290-292)
SortKeywords ==
    /\ pc = "sort"
    /\ keywords' = SortByLen(keywords)
    /\ documents' = <<>>
    /\ hit_pos' = 0
    /\ pc' = "merge"
    /\ UNCHANGED <<docs, rake_out, built, index, trips, load_failed, query, max_results,
                   map, query_words, ranked, result, run, first_query, first_result>>
    /\ UNCHANGED <<fsVars, cliVars, wasmVars, extractVars>>

\* One turn of the merge loop (lib.rs 294-301)
MergeHit ==
    /\ pc = "merge"
    /\ hit_pos < Len(keywords)
    /\ LET keyword_index == keywords[hit_pos + 1].index
       IN IF keyword_index < Len(index.keyword_to_documents)
          THEN /\ documents' = MergePosting(documents,
                                            index.keyword_to_documents[keyword_index + 1])
               /\ hit_pos' = hit_pos + 1
               /\ UNCHANGED <<pc, result>>
          ELSE /\ result' = Panic
               /\ pc' = "done"
               /\ UNCHANGED <<documents, hit_pos>>
    /\ UNCHANGED <<docs, rake_out, built, index, trips, load_failed, query, max_results,
                   map, query_words, keywords, ranked, run, first_query, first_result>>
    /\ UNCHANGED <<fsVars, cliVars, wasmVars, extractVars>>

\* Ranking and reconstruction (lib.rs 303-339); the HashMap yields its
\* entries in any order.
Rank ==
    /\ pc = "merge"
    /\ hit_pos = Len(keywords)
    /\ \E order \in Orders(DOMAIN documents) :
        ranked' = RankAndTruncate([i \in 1..Len(order) |-> <<order[i], documents[order[i]]>>],
                                  max_results)
    /\ result' = Reconstruct(index.document_strings, ranked')
    /\ pc' = "done"
    /\ UNCHANGED <<docs, rake_out, built, index, trips, load_failed, query, max_results,
                   map, query_words, keywords, hit_pos, documents, run,
                   first_query, first_result>>
    /\ UNCHANGED <<fsVars, cliVars, wasmVars, extractVars>>

\* Index::from_bytes(&index.to_bytes()) between the two runs (lib.rs 107-114)
RoundTrip ==
    /\ pc = "done"
    /\ run = 1
    /\ trips < MaxTrips
    /\ ~load_failed
    /\ LET decoded == FromBytes(ToBytes(index))
       IN IF decoded.ok
          THEN index' = decoded.value /\ UNCHANGED load_failed
          ELSE load_failed' = TRUE /\ UNCHANGED index
    /\ trips' = trips + 1
    /\ UNCHANGED <<docs, rake_out, pc, built, searchVars>>
    /\ UNCHANGED <<fsVars, cliVars, wasmVars, extractVars>>

\* The second call, with the same max_results and the same query up to
\* letter case
SearchAgain ==
    /\ pc = "done"
    /\ run = 1
    /\ ~load_failed
    /\ \E q \in QueryPool : SameUpToCase(query, q) /\ Begin(q, max_results)
    /\ run' = 2
    /\ first_query' = query
    /\ first_result' = result
    /\ UNCHANGED <<docs, rake_out, built, index, trips, load_failed>>
    /\ UNCHANGED <<fsVars, cliVars, wasmVars, extractVars>>

Next ==
    \/ AddDocument
    \/ Build
    \/ StartSearch
    \/ LookupWord
    \/ SortKeywords
    \/ MergeHit
    \/ Rank
    \/ RoundTrip
    \/ SearchAgain

Spec == Init /\ [][Next]_vars

(***************************************************************************)
(* FsstStrVec on its own: from_strings on a list of strings, with any      *)
(* symbol table the trainer can return, then calls of get.                 *)
(***************************************************************************)

MaxStrings == 2      \* strings given to from_strings

FsStringPool == { <<>>, Str(<<"a", "b", "a">>), Str(<<"b", "Sigma">>) }

FsInit ==
    /\ MainInit
    /\ ExtractIdle
    /\ CliIdle
    /\ WasmIdle
    /\ fs_pc = "train"
    /\ fs_strings \in SeqsUpTo(FsStringPool, MaxStrings)
    /\ fs_table = <<>>
    /\ fs_vec = EmptyVec(<<>>)
    /\ fs_got = NoCall
    /\ fs_prev = NoCall

\* Compressor::train and the dictionary kept from it (lib.rs 22-31, 39-42)
FsTrain ==
    /\ fs_pc = "train"
    /\ \E table \in SymbolTables([i \in 1..Len(fs_strings) |-> AsBytes(fs_strings[i])]) :
        /\ fs_table' = table
        /\ fs_vec' = EmptyVec(table)
    /\ fs_pc' = IF fs_strings = <<>> THEN "built" ELSE "push"
    /\ UNCHANGED <<fs_strings, fs_got, fs_prev, mainVars, cliVars, wasmVars, extractVars>>

\* One turn of the loop over the strings (lib.rs 32-36)
FsPush ==
    /\ fs_pc = "push"
    /\ fs_vec' = PushString(fs_vec, fs_table, fs_strings[VecLen(fs_vec) + 1])
    /\ fs_pc' = IF VecLen(fs_vec') = Len(fs_strings) THEN "built" ELSE "push"
    /\ UNCHANGED <<fs_strings, fs_table, fs_got, fs_prev, mainVars, cliVars, wasmVars, extractVars>>

\* A call get(i) (lib.rs 58-81)
FsGet ==
    /\ fs_pc = "built"
    /\ \E i \in 0..(Len(fs_strings) + 1) :
        /\ fs_got' = [tag |-> "Call", i |-> i, returned |-> VecGet(fs_vec, i)]
        /\ fs_prev' = IF fs_got.tag = "Call" /\ fs_got.i = i
                      THEN [tag |-> "Call", returned |-> fs_got.returned]
                      ELSE NoCall
    /\ UNCHANGED <<fs_pc, fs_strings, fs_table, fs_vec, mainVars, cliVars, wasmVars, extractVars>>

FsNext == FsTrain \/ FsPush \/ FsGet

SpecFsst == FsInit /\ [][FsNext]_vars

(***************************************************************************)
(* The build CLI (cli main.rs 77-342) run on an embedded module and an     *)
(* index, one step of main at a time.  The file system may refuse any      *)
(* operation.                                                              *)
(***************************************************************************)

MaxOldPages == 2     \* initial pages of the embedded module's memory
MaxIndexPages == 1   \* whole pages in the serialized index

DeadBeef == <<239, 190, 173, 222>>      \* 0xdead_beef in memory (wasm lib.rs 12, 15)

\* The segment that holds the two statics, and the addresses the variants
\* give them.
SentinelOffset == 16
SentinelData == <<0, 0, 0, 0>> \o DeadBeef \o DeadBeef

ModuleVariants ==
    {"ok", "len_first", "no_datacount", "no_base_export", "no_len_export",
     "base_not_i32", "len_elsewhere", "base_nowhere", "base_at_end", "truncated"}

BaseAddress(variant) ==
    CASE variant = "len_first" -> SentinelOffset + 8
      [] variant = "base_at_end" -> SentinelOffset + 10
      [] OTHER -> SentinelOffset + 4

LenAddress(variant) ==
    CASE variant \in {"len_first", "base_at_end"} -> SentinelOffset + 4
      [] variant = "len_elsewhere" -> 9
      [] OTHER -> SentinelOffset + 8

\* An embedded module: what wasm-bindgen gives for the wasm crate, with
\* old_pages pages of memory and the given maximum, or a variant of it.
MakeModule(old_pages, maximum, variant) ==
    LET segments ==
            IF variant = "base_nowhere"
            THEN <<ActiveSegment(0, I32Const(8), <<1, 2, 3>>), PassiveSegment(SentinelData)>>
            ELSE <<ActiveSegment(0, I32Const(8), <<1, 2, 3>>),
                   ActiveSegment(0, I32Const(SentinelOffset), SentinelData),
                   PassiveSegment(<<7>>)>>
        exports ==
            <<[name |-> "search", index |-> 0]>>
            \o (IF variant = "no_base_export" THEN <<>>
                ELSE <<[name |-> "INDEX_BASE", index |-> 1]>>)
            \o (IF variant = "no_len_export" THEN <<>>
                ELSE <<[name |-> "INDEX_LEN", index |-> 2]>>)
        inits ==
            <<I32Const(1024),
              IF variant = "base_not_i32" THEN <<[op |-> "global.get", index |-> 0]>>
              ELSE I32Const(BaseAddress(variant)),
              I32Const(LenAddress(variant))>>
    IN <<[sec |-> "Raw", id |-> 1, data |-> <<1, 96, 0, 0>>],
         [sec |-> "Memory",
          memories |-> <<[initial |-> old_pages, maximum |-> maximum,
                          memory64 |-> FALSE, shared |-> FALSE]>>],
         [sec |-> "Global", id |-> 6, data |-> <<3, 127, 0>>, inits |-> inits],
         [sec |-> "Export", id |-> 7, data |-> <<Len(exports), 3>>, exports |-> exports]>>
       \o (IF variant = "no_datacount" THEN <<>>
           ELSE <<[sec |-> "DataCount", count |-> Len(segments)]>>)
       \o <<[sec |-> "Raw", id |-> 10, data |-> <<1, 2, 0, 11>>],
            [sec |-> "Data", segments |-> segments],
            [sec |-> "Raw", id |-> 0, data |-> <<4, 110>>]>>
       \o (IF variant = "truncated" THEN <<[sec |-> "Invalid"]>> ELSE <<>>)

ModulePool ==
    { MakeModule(old_pages, maximum, variant) :
        old_pages \in 1..MaxOldPages,
        maximum \in {None, Some(MaxOldPages + MaxIndexPages + 2)},
        variant \in ModuleVariants }

\* The lengths of the serialized index
IndexLens == {5} \cup {k * PageSize + r : k \in 1..MaxIndexPages, r \in {0, 1}}


CliInit ==
    /\ MainInit
    /\ ExtractIdle
    /\ FsIdle
    /\ WasmIdle
    /\ cli_pc = "args"
    /\ cli_args \in {2, 3}
    /\ docfind_bg_wasm \in ModulePool
    /\ raw_index = RawIndex(0)
    /\ parsed = None
    /\ wasm_bytes = None
    /\ out_dir = NoFiles
    /\ cli_exit = "running"

notCli == <<mainVars, fsVars, wasmVars, extractVars>>

\* How main ends: exit(1), an Err returned through ?, a panic
Stop(how) == cli_pc' = "stopped" /\ cli_exit' = how

\* The argument check (main.rs 81-84)
CliArgs ==
    /\ cli_pc = "args"
    /\ IF cli_args /= 3 THEN Stop("exit1") ELSE cli_pc' = "read" /\ UNCHANGED cli_exit
    /\ UNCHANGED <<cli_args, docfind_bg_wasm, raw_index, parsed, wasm_bytes, out_dir, notCli>>

\* File::open and serde_json::from_reader (main.rs 93-94)
CliReadDocuments ==
    /\ cli_pc = "read"
    /\ \E ok \in BOOLEAN :
        IF ok THEN cli_pc' = "build" /\ UNCHANGED cli_exit ELSE Stop("err")
    /\ UNCHANGED <<cli_args, docfind_bg_wasm, raw_index, parsed, wasm_bytes, out_dir, notCli>>

\* build_index (main.rs 97); raw_index is what index.to_bytes() gives at
\* main.rs 234.
CliBuildIndex ==
    /\ cli_pc = "build"
    /\ \E len \in IndexLens : raw_index' = RawIndex(len)
    /\ cli_pc' = "parse"
    /\ UNCHANGED <<cli_args, docfind_bg_wasm, parsed, wasm_bytes, out_dir, cli_exit, notCli>>

\* The loop over the payloads (main.rs 123-202)
CliParse ==
    /\ cli_pc = "parse"
    /\ IF \E i \in 1..Len(docfind_bg_wasm) : docfind_bg_wasm[i].sec = "Invalid"
       THEN Stop("err") /\ UNCHANGED parsed
       ELSE /\ parsed' = ParseModule(docfind_bg_wasm)
            /\ cli_pc' = "find"
            /\ UNCHANGED cli_exit
    /\ UNCHANGED <<cli_args, docfind_bg_wasm, raw_index, wasm_bytes, out_dir, notCli>>

\* The four expect calls (main.rs 204-225)
SentinelsFound(p) ==
    /\ p.index_base_global_index /= None
    /\ p.index_len_global_index /= None
    /\ p.index_base_global_index.value \in DOMAIN p.i32_globals
    /\ p.index_len_global_index.value \in DOMAIN p.i32_globals

CliFindSentinels ==
    /\ cli_pc = "find"
    /\ IF SentinelsFound(parsed) THEN cli_pc' = "encode" /\ UNCHANGED cli_exit
       ELSE Stop("panic")
    /\ UNCHANGED <<cli_args, docfind_bg_wasm, raw_index, parsed, wasm_bytes, out_dir, notCli>>

index_base_global_address == parsed.i32_globals[parsed.index_base_global_index.value]
index_len_global_address == parsed.i32_globals[parsed.index_len_global_index.value]

\* The encoder loop and finish (main.rs 234-326)
CliEncode ==
    /\ cli_pc = "encode"
    /\ LET encoded == EncodeModule(parsed, index_base_global_address,
                                   index_len_global_address, raw_index)
       IN IF encoded = Panic
          THEN Stop("panic") /\ UNCHANGED wasm_bytes
          ELSE wasm_bytes' = Some(encoded.value) /\ cli_pc' = "validate" /\ UNCHANGED cli_exit
    /\ UNCHANGED <<cli_args, docfind_bg_wasm, raw_index, parsed, out_dir, notCli>>

\* validate_all (main.rs 327)
CliValidate ==
    /\ cli_pc = "validate"
    /\ IF Validate(wasm_bytes.value) THEN cli_pc' = "mkdir" /\ UNCHANGED cli_exit
       ELSE Stop("err")
    /\ UNCHANGED <<cli_args, docfind_bg_wasm, raw_index, parsed, wasm_bytes, out_dir, notCli>>

\* create_dir_all (main.rs 330)
CliCreateDir ==
    /\ cli_pc = "mkdir"
    /\ \E ok \in BOOLEAN :
        IF ok THEN cli_pc' = "create_js" /\ UNCHANGED cli_exit ELSE Stop("err")
    /\ UNCHANGED <<cli_args, docfind_bg_wasm, raw_index, parsed, wasm_bytes, out_dir, notCli>>

\* File::create(docfind.js) (main.rs 332)
CliCreateJs ==
    /\ cli_pc = "create_js"
    /\ \E ok \in BOOLEAN :
        IF ok THEN /\ out_dir' = [out_dir EXCEPT !.js = "created"]
                   /\ cli_pc' = "write_js"
                   /\ UNCHANGED cli_exit
        ELSE Stop("err") /\ UNCHANGED out_dir
    /\ UNCHANGED <<cli_args, docfind_bg_wasm, raw_index, parsed, wasm_bytes, notCli>>

\* output_js.write_all (main.rs 333)
CliWriteJs ==
    /\ cli_pc = "write_js"
    /\ \E ok \in BOOLEAN :
        IF ok THEN /\ out_dir' = [out_dir EXCEPT !.js = "written"]
                   /\ cli_pc' = "create_wasm"
                   /\ UNCHANGED cli_exit
        ELSE Stop("err") /\ UNCHANGED out_dir
    /\ UNCHANGED <<cli_args, docfind_bg_wasm, raw_index, parsed, wasm_bytes, notCli>>

\* File::create(docfind_bg.wasm) (main.rs 335)
CliCreateWasm ==
    /\ cli_pc = "create_wasm"
    /\ \E ok \in BOOLEAN :
        IF ok THEN /\ out_dir' = [out_dir EXCEPT !.wasm = "created"]
                   /\ cli_pc' = "write_wasm"
                   /\ UNCHANGED cli_exit
        ELSE Stop("err") /\ UNCHANGED out_dir
    /\ UNCHANGED <<cli_args, docfind_bg_wasm, raw_index, parsed, wasm_bytes, notCli>>

\* output_wasm.write_all and Ok(()) (main.rs 336-341)
CliWriteWasm ==
    /\ cli_pc = "write_wasm"
    /\ \E ok \in BOOLEAN :
        IF ok THEN /\ out_dir' = [out_dir EXCEPT !.wasm = "written"]
                   /\ Stop("ok")
        ELSE Stop("err") /\ UNCHANGED out_dir
    /\ UNCHANGED <<cli_args, docfind_bg_wasm, raw_index, parsed, wasm_bytes, notCli>>

CliNext ==
    \/ CliArgs
    \/ CliReadDocuments
    \/ CliBuildIndex
    \/ CliParse
    \/ CliFindSentinels
    \/ CliEncode
    \/ CliValidate
    \/ CliCreateDir
    \/ CliCreateJs
    \/ CliWriteJs
    \/ CliCreateWasm
    \/ CliWriteWasm

SpecCli == CliInit /\ [][CliNext]_vars

(***************************************************************************)
(* search on an index that from_bytes accepted although it is not one      *)
(* build_index makes: postcard checks the shape of the bytes, not what     *)
(* the numbers point at.                                                   *)
(***************************************************************************)

\* The index with the value of entry e of the FST replaced by v
WithFstValue(ix, e, v) ==
    LET entries == FstEntries(ix.fst)
    IN [ix EXCEPT !.fst = FstBuild([i \in 1..Len(entries) |->
                                       IF i = e THEN [entries[i] EXCEPT !.value = v]
                                       ELSE entries[i]])]

\* The index with the doc_index of posting j of list i replaced by d
WithDocIndex(ix, i, j, d) ==
    [ix EXCEPT !.keyword_to_documents[i][j] = <<d, @[2]>>]

\* An FST value beyond the posting lists, or a doc_index beyond the column
CorruptIndexes(ix, n_docs) ==
    { WithFstValue(ix, e, Len(ix.keyword_to_documents)) :
        e \in 1..Len(ix.keyword_to_documents) }
    \cup { WithDocIndex(ix, i, 1, n_docs) : i \in 1..Len(ix.keyword_to_documents) }

\* from_bytes is handed bytes that decode, but to a corrupt index
\* (lib.rs 110-113)
LoadCorrupt ==
    /\ pc = "ready"
    /\ index = built
    /\ \E corrupt \in CorruptIndexes(built, Len(docs)) :
        LET decoded == FromBytes(ToBytes(corrupt))
        IN /\ decoded.ok
           /\ index' = decoded.value
    /\ UNCHANGED <<docs, rake_out, pc, built, trips, load_failed, searchVars>>
    /\ UNCHANGED <<fsVars, cliVars, wasmVars, extractVars>>

CorruptNext ==
    \/ AddDocument
    \/ Build
    \/ LoadCorrupt
    \/ StartSearch
    \/ LookupWord
    \/ SortKeywords
    \/ MergeHit
    \/ Rank

SpecCorrupt == Init /\ [][CorruptNext]_vars

(***************************************************************************)
(* The wasm crate (src/wasm/src/lib.rs): calls of the exported search,     *)
(* each a caller stepping through INDEX.get_or_init and the core search.   *)
(* `memory` is the byte range from_raw_parts(INDEX_BASE, INDEX_LEN) yields.*)
(***************************************************************************)

MaxCallers == 2      \* calls of search in flight together

Callers == 1..MaxCallers

\* A caller finding the cell in this state runs the closure (OnceLock:
\* only the caller that takes the cell from uninitialised to running)
CanInitRacy(cell) == cell.state /= "complete"

CanInit(cell) == cell.state = "uninit"

\* The module is instantiated over the index the build wrote, or over bytes
\* that do not decode
WasmInstantiate ==
    /\ pc = "ready"
    /\ call_pc = <<>>
    /\ \E bytes \in {ToBytes(index), SubSeq(ToBytes(index), 1, Len(ToBytes(index)) - 1)} :
        memory' = bytes
    /\ call_pc' = [c \in Callers |-> "idle"]
    /\ call_index' = [c \in Callers |-> None]
    /\ UNCHANGED <<INDEX, decodes>>
    /\ UNCHANGED <<mainVars, fsVars, cliVars, extractVars>>

\* search is called (wasm lib.rs 22)
WasmCall(c) ==
    /\ c \in DOMAIN call_pc
    /\ call_pc[c] = "idle"
    /\ call_pc' = [call_pc EXCEPT ![c] = "get_or_init"]
    /\ call_index' = [call_index EXCEPT ![c] = None]
    /\ UNCHANGED <<INDEX, memory, decodes>>
    /\ UNCHANGED <<mainVars, fsVars, cliVars, extractVars>>

\* INDEX.get_or_init looks at the cell (wasm lib.rs 23): a complete cell is
\* read, an uninitialised one is taken, a running one is waited for
WasmGetOrInit(c) ==
    /\ c \in DOMAIN call_pc
    /\ call_pc[c] = "get_or_init"
    /\ IF INDEX.state = "complete"
       THEN /\ call_index' = [call_index EXCEPT ![c] = INDEX.value]
            /\ call_pc' = [call_pc EXCEPT ![c] = "search"]
            /\ UNCHANGED INDEX
       ELSE /\ CanInit(INDEX)
            /\ INDEX' = [INDEX EXCEPT !.state = "running"]
            /\ call_pc' = [call_pc EXCEPT ![c] = "init"]
            /\ UNCHANGED call_index
    /\ UNCHANGED <<memory, decodes>>
    /\ UNCHANGED <<mainVars, fsVars, cliVars, extractVars>>

\* The closure: Index::from_bytes(raw_index).expect(..) (wasm lib.rs 24-26);
\* the Index it makes is told apart from any other decode's by `decode`
WasmDecode(c) ==
    /\ c \in DOMAIN call_pc
    /\ call_pc[c] = "init"
    /\ decodes' = decodes + 1
    /\ LET decoded == FromBytes(memory)
       IN IF decoded.ok
          THEN /\ call_index' = [call_index EXCEPT
                                    ![c] = Some([index |-> decoded.value,
                                                 decode |-> decodes + 1])]
               /\ call_pc' = [call_pc EXCEPT ![c] = "publish"]
          ELSE /\ call_pc' = [call_pc EXCEPT ![c] = "panic"]
               /\ UNCHANGED call_index
    /\ UNCHANGED <<INDEX, memory>>
    /\ UNCHANGED <<mainVars, fsVars, cliVars, extractVars>>

\* get_or_init stores the closure's value and returns a reference to the
\* stored one (wasm lib.rs 23-27)
WasmPublish(c) ==
    /\ c \in DOMAIN call_pc
    /\ call_pc[c] = "publish"
    /\ INDEX' = [state |-> "complete", value |-> call_index[c]]
    /\ call_pc' = [call_pc EXCEPT ![c] = "search"]
    /\ UNCHANGED <<call_index, memory, decodes>>
    /\ UNCHANGED <<mainVars, fsVars, cliVars, extractVars>>

\* docfind_core::search on the reference, and the return (wasm lib.rs 29-33)
WasmSearch(c) ==
    /\ c \in DOMAIN call_pc
    /\ call_pc[c] = "search"
    /\ call_pc' = [call_pc EXCEPT ![c] = "idle"]
    /\ UNCHANGED <<INDEX, call_index, memory, decodes>>
    /\ UNCHANGED <<mainVars, fsVars, cliVars, extractVars>>

WasmNext ==
    \/ AddDocument
    \/ Build
    \/ WasmInstantiate
    \/ \E c \in Callers : WasmCall(c)
    \/ \E c \in Callers : WasmGetOrInit(c)
    \/ \E c \in Callers : WasmDecode(c)
    \/ \E c \in Callers : WasmPublish(c)
    \/ \E c \in Callers : WasmSearch(c)

SpecWasm == Init /\ [][WasmNext]_vars

(***************************************************************************)
(* Keyword extraction for one document, loop turn by loop turn             *)
(* (lib.rs 141-204).                                                       *)
(***************************************************************************)

MaxPhrases == 13     \* phrases rake.run_fragments returns for a body

\* A document and what the extractor returns for its body, scores in tenths
ExtractPool ==
    { [ doc |-> [ title |-> Str(<<"B", "c", " ", "-", "b", " ", "a", " ", "c", "c">>),
                  category |-> Str(<<"c">>),
                  href |-> Str(<<"/", "a">>),
                  body |-> Str(<<"c">>),
                  keywords |-> Some(<<Str(<<"B">>), Str(<<"b", "b", "-">>), Str(<<"a">>),
                                      Str(<<"-">>), Str(<<"b">>)>>) ],
        body_keywords |->
            <<[keyword |-> Str(<<"c", "c">>), score |-> 10],
              [keyword |-> Str(<<"c">>), score |-> 10],
              [keyword |-> Str(<<"C">>), score |-> 10],
              [keyword |-> Str(<<"c", "b">>), score |-> 10],
              [keyword |-> Str(<<"b", " ", "c">>), score |-> 40],
              [keyword |-> Str(<<"b", "c", "b">>), score |-> 10],
              [keyword |-> Str(<<"c", "c", "b">>), score |-> 10],
              [keyword |-> Str(<<"c", " ", "b">>), score |-> 40],
              [keyword |-> Str(<<"b", "b", "c">>), score |-> 10],
              [keyword |-> Str(<<"c", "b", "c">>), score |-> 10],
              [keyword |-> Str(<<"c", " ", "c">>), score |-> 40],
              [keyword |-> Str(<<"b", " ", "b">>), score |-> 40],
              [keyword |-> Str(<<"b", "c", "c">>), score |-> 10]>> ],
      [ doc |-> [ title |-> Str(<<"b">>),
                  category |-> Str(<<"c">>),
                  href |-> Str(<<"/", "b">>),
                  body |-> Str(<<"c">>),
                  keywords |-> None ],
        body_keywords |->
            <<[keyword |-> Str(<<"b", "-">>), score |-> 10],
              [keyword |-> Str(<<"b", " ", "b", " ", "c">>), score |-> 90],
              [keyword |-> Str(<<"b", " ", "c">>), score |-> 40],
              [keyword |-> Str(<<"B", " ", "C">>), score |-> 40],
              [keyword |-> Str(<<"c", " ", "b">>), score |-> 40],
              [keyword |-> Str(<<"c", " ", "c">>), score |-> 40],
              [keyword |-> Str(<<"b", " ", "b">>), score |-> 40],
              [keyword |-> Str(<<"c">>), score |-> 10],
              [keyword |-> Str(<<"b", " ", "b">>), score |-> 40]>> ],
      [ doc |-> [ title |-> Str(<<"C", " ", "c", " ", "b", "Sigma">>),
                  category |-> Str(<<"c">>),
                  href |-> Str(<<"/", "a">>),
                  body |-> <<>>,
                  keywords |-> Some(<<Str(<<"-", "C", "-">>)>>) ],
        body_keywords |-> <<[keyword |-> Str(<<"b", "Sigma">>), score |-> 10],
                            [keyword |-> Str(<<"b", "fsigma">>), score |-> 10]>> ] }

\* !keyword.is_empty() && !sw.contains(&keyword) (lib.rs 150, 165)
IsValidKeyword(keyword) == keyword /= <<>> /\ keyword \notin StopWords

\* Mutant of the seen test: nothing counts as seen
NeverSeen(set, keyword) == TRUE

\* !keyword_set.contains(&keyword) (lib.rs 150, 170, 185)
NotSeen(set, keyword) == keyword \notin set

\* Mutant of the budget test: a budget of zero still pays
BudgetLeftAtZero(budget) == budget >= 0

\* single_word_budget > 0, double_word_budget > 0 (lib.rs 191, 193)
BudgetLeft(budget) == budget > 0

ExtractInit ==
    /\ MainInit
    /\ FsIdle
    /\ CliIdle
    /\ WasmIdle
    /\ ex_pc = "explicit"
    /\ \E d \in ExtractPool :
        /\ ex_doc = d.doc
        /\ \E n \in 0..MaxPhrases :
            /\ n <= Len(d.body_keywords)
            /\ ex_body = SubSeq(d.body_keywords, 1, n)
    /\ ex_pos = 0
    /\ keyword_set = {}
    /\ ex_keywords = <<>>
    /\ title_keywords = {}
    /\ single_word_budget = SingleWordBudget
    /\ double_word_budget = DoubleWordBudget
    /\ accepted = {}

notExtract == <<mainVars, fsVars, cliVars, wasmVars>>

\* keywords.push((keyword, score)); keyword_set.insert(keyword)
\* (lib.rs 152-153, 171-172, 199-200)
Emit(keyword, score) ==
    /\ ex_keywords' = Append(ex_keywords, [keyword |-> keyword, score |-> score])
    /\ keyword_set' = keyword_set \cup {keyword}

\* One turn of the loop over doc.keywords (lib.rs 146-155)
ExplicitKeyword ==
    /\ ex_pc = "explicit"
    /\ ex_doc.keywords.tag = "Some"
    /\ ex_pos < Len(ex_doc.keywords.value)
    /\ LET keyword == ToLowercase(TrimNonAlnum(ex_doc.keywords.value[ex_pos + 1]))
       IN IF IsValidKeyword(keyword) /\ NotSeen(keyword_set, keyword)
          THEN Emit(keyword, ExplicitScore * ScoreUnit)
          ELSE UNCHANGED <<ex_keywords, keyword_set>>
    /\ ex_pos' = ex_pos + 1
    /\ UNCHANGED <<ex_pc, ex_doc, ex_body, title_keywords, single_word_budget,
                   double_word_budget, accepted>>
    /\ UNCHANGED notExtract

\* title_keywords is collected (lib.rs 159-167)
CollectTitle ==
    /\ ex_pc = "explicit"
    /\ ex_doc.keywords.tag = "Some" => ex_pos = Len(ex_doc.keywords.value)
    /\ title_keywords' =
          {w \in {ToLowercase(TrimNonAlnum(x)) : x \in Range(SplitWhitespace(ex_doc.title))} :
              IsValidKeyword(w)}
    /\ ex_pc' = "title"
    /\ UNCHANGED <<ex_doc, ex_body, ex_pos, keyword_set, ex_keywords, single_word_budget,
                   double_word_budget, accepted>>
    /\ UNCHANGED notExtract

\* One turn of the loop over title_keywords, in the HashSet's order
\* (lib.rs 169-174)
TitleKeyword ==
    /\ ex_pc = "title"
    /\ \E tk \in title_keywords :
        /\ title_keywords' = title_keywords \ {tk}
        /\ IF NotSeen(keyword_set, tk)
           THEN Emit(tk, TitleScore * ScoreUnit)
           ELSE UNCHANGED <<ex_keywords, keyword_set>>
    /\ UNCHANGED <<ex_pc, ex_doc, ex_body, ex_pos, single_word_budget,
                   double_word_budget, accepted>>
    /\ UNCHANGED notExtract

\* rake.run_fragments and the two budgets (lib.rs 176-178)
RunFragments ==
    /\ ex_pc = "title"
    /\ title_keywords = {}
    /\ ex_pc' = "body"
    /\ ex_pos' = 0
    /\ single_word_budget' = SingleWordBudget
    /\ double_word_budget' = DoubleWordBudget
    /\ UNCHANGED <<ex_doc, ex_body, keyword_set, ex_keywords, title_keywords, accepted>>
    /\ UNCHANGED notExtract

\* One turn of the loop over body_keywords (lib.rs 180-204)
BodyKeyword ==
    /\ ex_pc = "body"
    /\ ex_pos < Len(ex_body)
    /\ ex_pos' = ex_pos + 1
    /\ LET k == ex_body[ex_pos + 1]
           keyword == ToLowercase(k.keyword)
           whitespace_count == SpaceCount(k.keyword)
           push(single, double) ==
               /\ single_word_budget' = single
               /\ double_word_budget' = double
               /\ Emit(keyword, k.score)
               /\ accepted' = accepted \cup {ex_pos + 1}
               /\ ex_pc' = IF single = 0 /\ double = 0 THEN "done" ELSE "body"
           continue ==
               UNCHANGED <<ex_pc, keyword_set, ex_keywords, single_word_budget,
                           double_word_budget, accepted>>
       IN IF ~NotSeen(keyword_set, keyword) THEN continue
          ELSE IF whitespace_count = 0 /\ BudgetLeft(single_word_budget)
          THEN push(single_word_budget - 1, double_word_budget)
          ELSE IF whitespace_count = 1 /\ BudgetLeft(double_word_budget)
          THEN push(single_word_budget, double_word_budget - 1)
          ELSE continue
    /\ UNCHANGED <<ex_doc, ex_body, title_keywords>>
    /\ UNCHANGED notExtract

\* The loop over body_keywords runs out (lib.rs 180)
BodyEnd ==
    /\ ex_pc = "body"
    /\ ex_pos = Len(ex_body)
    /\ ex_pc' = "done"
    /\ UNCHANGED <<ex_doc, ex_body, ex_pos, keyword_set, ex_keywords, title_keywords,
                   single_word_budget, double_word_budget, accepted>>
    /\ UNCHANGED notExtract

ExtractNext ==
    \/ ExplicitKeyword
    \/ CollectTitle
    \/ TitleKeyword
    \/ RunFragments
    \/ BodyKeyword
    \/ BodyEnd

SpecExtract == ExtractInit /\ [][ExtractNext]_vars

(***************************************************************************)
(* Properties of search                                                    *)
(***************************************************************************)

\* The sum of the scores a posting list gives document d
RECURSIVE PostingScore(_, _)
PostingScore(list, d) ==
    IF list = <<>> THEN 0
    ELSE (IF Head(list)[1] = d THEN Head(list)[2] ELSE 0) + PostingScore(Tail(list), d)

\* The sum of the posting scores of document d over the first n hits
RECURSIVE HitSum(_, _)
HitSum(d, n) ==
    IF n = 0 THEN 0
    ELSE HitSum(d, n - 1)
         + PostingScore(index.keyword_to_documents[keywords[n].index + 1], d)

Returned == {ranked[i][1] : i \in 1..Len(ranked)}
PositionOf(d) == CHOOSE i \in 1..Len(ranked) : ranked[i][1] = d

\* The Document search rebuilds for document index d
DocumentAt(d) ==
    [ title |-> docs[d + 1].title,
      category |-> docs[d + 1].category,
      href |-> docs[d + 1].href,
      body |-> docs[d + 1].body,
      keywords |-> None ]

Finished == pc = "done" /\ result.tag = "Ok"

\* C1: the list search returns has at most max_results entries (none for
\* max_results = 0), one per ranked entry; the accumulated scores of the
\* returned documents do not increase along it; and returned documents of
\* equal accumulated score are in ascending doc_index order.
C1_BoundedAndOrdered ==
    Finished =>
        /\ Len(result.value) <= max_results
        /\ Len(result.value) = Len(ranked)
        /\ \A i \in 1..Len(ranked) :
            /\ ranked[i][1] \in DOMAIN documents
            /\ ranked[i][2] = documents[ranked[i][1]]
        /\ \A i, j \in 1..Len(ranked) :
            i < j => \/ ranked[i][2] > ranked[j][2]
                     \/ ranked[i][2] = ranked[j][2] /\ ranked[i][1] < ranked[j][1]

\* C1's case: two documents tie and max_results = 1 cuts the list to the
\* one of lower doc_index.
C1_Witness ==
    /\ Finished
    /\ max_results = 1
    /\ DOMAIN documents = {0, 1}
    /\ documents[0] = documents[1]
    /\ ranked = <<<<0, documents[0]>>>>

\* The documents the claim C2 names: those in the posting list of a keyword
\* that is within edit distance 1 of a query term or has one as a prefix
MatchingDocs ==
    LET entries == FstEntries(index.fst)
        matched == {i \in 1..Len(entries) :
                       \E t \in QueryWords(query) :
                           \/ WithinEdit1(t, FromUtf8(entries[i].key))
                           \/ IsPrefix(t, FromUtf8(entries[i].key))}
    IN UNION {{p[1] : p \in Range(index.keyword_to_documents[entries[i].value + 1])} :
                 i \in matched}

C3_Deterministic ==
    (pc = "done" /\ run = 2 /\ trips = 0 /\ query = first_query) => result = first_result

\* C3's case: a second run of a query with several words and two scored
\* documents has finished.
C3_Witness ==
    /\ Finished
    /\ run = 2
    /\ trips = 0
    /\ query = first_query
    /\ Cardinality(QueryWords(query)) >= 3
    /\ Cardinality(DOMAIN documents) >= 2
    /\ Len(ranked) >= 2

\* C4: during the posting merge, after any number of processed hits, every
\* document's accumulated score is min(255, sum of the posting scores of the
\* processed hits that list it); it stays in 0..255 (no wrap-around), so a
\* document that reached 255 stays at 255.
C4_SaturatingSum ==
    (pc = "merge" \/ Finished) =>
        \A d \in 0..MaxDocs :
            IF d \in DOMAIN documents
            THEN /\ documents[d] = Min(U8Max, HitSum(d, hit_pos))
                 /\ documents[d] \in 0..U8Max
            ELSE HitSum(d, hit_pos) = 0

\* C4's case: a document reached 255 at an earlier hit and later hits that
\* list it have been merged.
C4_Witness ==
    /\ pc = "merge"
    /\ \E d \in DOMAIN documents :
        /\ documents[d] = U8Max
        /\ \E n \in 1..(hit_pos - 1) :
            /\ HitSum(d, n) >= U8Max
            /\ HitSum(d, hit_pos) > HitSum(d, n)

\* C5 as claimed: a document whose posting scores over all hits total
\* strictly more than another's is returned before it (when it is returned).
C5_Original_TotalOrder ==
    Finished =>
        \A a, b \in 0..MaxDocs :
            (/\ HitSum(a, Len(keywords)) > HitSum(b, Len(keywords))
             /\ a \in Returned /\ b \in Returned)
                => PositionOf(a) < PositionOf(b)

\* C5, amended: a document whose saturated total min(255, sum of its
\* posting scores over all hits) is strictly greater than another's is
\* returned before it (when it is returned), and is returned whenever the
\* other one is.
C5_SaturatedTotalOrder ==
    Finished =>
        \A a, b \in 0..MaxDocs :
            Min(U8Max, HitSum(a, Len(keywords))) > Min(U8Max, HitSum(b, Len(keywords)))
                => /\ (a \in Returned /\ b \in Returned) => PositionOf(a) < PositionOf(b)
                   /\ b \in Returned => a \in Returned

\* C5's case: the later document of the input has the greater saturated
\* total and is returned first.
C5_Witness ==
    /\ Finished
    /\ Len(ranked) = 2
    /\ ranked[1][1] = 1
    /\ ranked[2][1] = 0
    /\ Min(U8Max, HitSum(1, Len(keywords))) > Min(U8Max, HitSum(0, Len(keywords)))
    /\ HitSum(1, Len(keywords)) > U8Max

\* C6 as claimed: search is case-insensitive; two queries that differ only
\* in the letter case of their characters return the same result list (the
\* claim derives it from their sets of query words being equal).
C6_CaseInsensitive ==
    (pc = "done" /\ run = 2 /\ trips = 0 /\ SameUpToCase(first_query, query)) =>
        result = first_result

\* C7 as claimed: the empty query produces at most one keyword hit.
C7_Original_AtMostOneHit ==
    (query = <<>> /\ pc \in {"sort", "merge", "done"}) => Len(keywords) <= 1

\* All documents that occur in a posting list of the index
IndexedDocs ==
    UNION {{p[1] : p \in Range(index.keyword_to_documents[i])} :
              i \in 1..Len(index.keyword_to_documents)}

\* C7, amended: the empty query has one query word, the empty string; the
\* lookup produces exactly one hit for every keyword of the FST, in key
\* order before the sort; and search returns min(max_results, n) of the n
\* documents that occur in any posting list.
C7_EmptyQueryHitsEveryKeyword ==
    (query = <<>> /\ pc \in {"sort", "merge", "done"} /\ result.tag /= "Err") =>
        /\ QueryWords(query) = {<<>>}
        /\ Len(keywords) = Len(map)
        /\ {keywords[i].index : i \in 1..Len(keywords)} = {map[i].value : i \in 1..Len(map)}
        /\ Finished =>
            /\ Returned \subseteq IndexedDocs
            /\ Len(ranked) = Min(max_results, Cardinality(IndexedDocs))

\* C7's case: the empty query on an index with several keywords, one of
\* them a single character, has returned documents.
C7_Witness ==
    /\ Finished
    /\ query = <<>>
    /\ Len(map) >= 3
    /\ \E i \in 1..Len(map) : Len(map[i].key) = 1
    /\ Len(ranked) >= 1

\* C8: the column of build_index(D) has exactly 4 * |D| strings, and slots
\* 4i, 4i+1, 4i+2, 4i+3 decode to D[i]'s title, category, href and body.
C8_ColumnLayout ==
    pc /= "input" =>
        /\ VecLen(built.document_strings) = 4 * Len(docs)
        /\ \A i \in 0..(Len(docs) - 1) :
            /\ VecGet(built.document_strings, 4 * i) = Some(docs[i + 1].title)
            /\ VecGet(built.document_strings, 4 * i + 1) = Some(docs[i + 1].category)
            /\ VecGet(built.document_strings, 4 * i + 2) = Some(docs[i + 1].href)
            /\ VecGet(built.document_strings, 4 * i + 3) = Some(docs[i + 1].body)

\* C8's case: an index built from two different documents, with a trained
\* symbol table.
C8_Witness ==
    /\ pc = "ready"
    /\ Len(docs) = 2
    /\ docs[1] /= docs[2]
    /\ built.document_strings.dict_lens /= <<>>

\* C9: from_bytes(to_bytes(I)) succeeds; a query run on the index it yields
\* returns what the same query returned on the built index; and a further
\* round trip yields the same index again.
C9_RoundTrip ==
    /\ ~load_failed
    /\ trips >= 1 =>
        /\ FromBytes(ToBytes(index)) = [ok |-> TRUE, value |-> index]
        /\ (pc = "done" /\ run = 2 /\ query = first_query) => result = first_result

\* C9's case: a query that returned documents on the built index was run
\* again after two round trips.
C9_Witness ==
    /\ Finished
    /\ run = 2
    /\ trips = 2
    /\ query = first_query
    /\ Len(ranked) >= 2
    /\ \E i \in 1..Len(index.keyword_to_documents) :
        \E p \in Range(index.keyword_to_documents[i]) : p[2] = U8Max

(***************************************************************************)
(* Properties of FsstStrVec                                                *)
(***************************************************************************)

\* C10: for the FsstStrVec built from a list S: len() = |S|; get(i) is None
\* exactly when i >= len(); for i < len() the code bytes from offsets[i] to
\* offsets[i+1] (the end of data for the last item) are the compressed form
\* of S[i] and get(i) is Some(S[i]); and a repeated call returns the same.
C10_GetReturnsTheString ==
    fs_pc = "built" =>
        /\ VecLen(fs_vec) = Len(fs_strings)
        /\ \A i \in 0..(Len(fs_strings) + 1) :
            /\ VecGet(fs_vec, i) = None <=> i >= VecLen(fs_vec)
            /\ i < VecLen(fs_vec) =>
                /\ CodesOf(fs_vec, i) = Compress(fs_table, AsBytes(fs_strings[i + 1]))
                /\ VecGet(fs_vec, i) = Some(fs_strings[i + 1])
        /\ fs_got.tag = "Call" =>
            /\ fs_got.returned = IF fs_got.i < Len(fs_strings)
                                 THEN Some(fs_strings[fs_got.i + 1])
                                 ELSE None
            /\ fs_prev.tag = "Call" => fs_prev.returned = fs_got.returned

\* C10's case: get(0) was called twice in a row on a vector of two
\* different strings whose codes use a trained symbol.
C10_Witness ==
    /\ fs_pc = "built"
    /\ Len(fs_strings) = 2
    /\ fs_strings[1] /= fs_strings[2]
    /\ fs_strings[1] /= <<>>
    /\ \E c \in Range(CodesOf(fs_vec, 0)) : c < Len(fs_table)
    /\ fs_got.tag = "Call" /\ fs_got.i = 0
    /\ fs_prev.tag = "Call"

(***************************************************************************)
(* Properties of the assembler and of the CLI                              *)
(***************************************************************************)

Emitted == wasm_bytes /= None
InputSegments == SegmentsOf(docfind_bg_wasm)
EmittedSegments == SegmentsOf(wasm_bytes.value)
InputPages == MemoriesOf(docfind_bg_wasm)[1].initial

\* The data segment has an i32.const offset and its byte range holds the address
Contains(segment, address) ==
    /\ segment.kind = "Active"
    /\ Len(segment.offset_expr) = 1
    /\ segment.offset_expr[1].op = "i32.const"
    /\ segment.offset_expr[1].value <= address
    /\ address < segment.offset_expr[1].value + Len(segment.data)

\* The 32-bit little-endian word a load at position `at` of data reads
WordAt(data, at) ==
    data[at + 1] + 256 * data[at + 2] + 65536 * data[at + 3] + 16777216 * data[at + 4]

\* C11: every active i32.const data segment whose byte range contains the
\* INDEX_BASE address is emitted with index_base, little-endian, at
\* (INDEX_BASE address - off) and raw_index.len(), little-endian, at
\* (INDEX_LEN address - off).
C11_SentinelsPatched ==
    Emitted =>
        \A i \in 1..Len(InputSegments) :
            Contains(InputSegments[i], index_base_global_address) =>
                LET off == InputSegments[i].offset_expr[1].value
                IN /\ WordAt(EmittedSegments[i].data, index_base_global_address - off)
                        = InputPages * 65536
                   /\ WordAt(EmittedSegments[i].data, index_len_global_address - off)
                        = raw_index.len

\* C11's case: a module was written whose sentinel segment was patched
\* with an index of a page or more behind two pages of memory.
C11_Witness ==
    /\ cli_exit = "ok"
    /\ InputPages = 2
    /\ raw_index.len > PageSize
    /\ \E i \in 1..Len(InputSegments) :
        /\ Contains(InputSegments[i], index_base_global_address)
        /\ EmittedSegments[i].data /= InputSegments[i].data
        /\ index_len_global_address < index_base_global_address

\* C12: each emitted Data section is the input section's segments in their
\* order followed by one active segment with memory index 0, offset
\* i32.const index_base and the serialized index as data; each emitted
\* DataCount section carries the input count plus one, which is the number
\* of emitted segments.
C12_IndexSegmentAppended ==
    Emitted =>
        /\ Len(wasm_bytes.value) = Len(docfind_bg_wasm)
        /\ \A i \in 1..Len(docfind_bg_wasm) :
            LET input == docfind_bg_wasm[i]
                output == wasm_bytes.value[i]
            IN /\ input.sec = "Data" =>
                    /\ output.sec = "Data"
                    /\ Len(output.segments) = Len(input.segments) + 1
                    /\ \A j \in 1..Len(input.segments) :
                        /\ output.segments[j].kind = input.segments[j].kind
                        /\ Len(output.segments[j].data) = Len(input.segments[j].data)
                        /\ ~Contains(input.segments[j], index_base_global_address)
                              => output.segments[j].data = input.segments[j].data
                    /\ output.segments[Len(output.segments)]
                         = [kind |-> "Active", memory_index |-> 0,
                            offset |-> <<[op |-> "i32.const", value |-> InputPages * 65536]>>,
                            data |-> raw_index]
               /\ input.sec = "DataCount" =>
                    /\ output = [sec |-> "DataCount", count |-> input.count + 1]
                    /\ output.count = Len(EmittedSegments)

\* C12's case: a module with a DataCount section and three data segments
\* was written with an index of a whole page.
C12_Witness ==
    /\ cli_exit = "ok"
    /\ Len(InputSegments) = 3
    /\ Len(EmittedSegments) = 4
    /\ raw_index.len = PageSize
    /\ \E i \in 1..Len(docfind_bg_wasm) : docfind_bg_wasm[i].sec = "DataCount"

\* C13: for every initial page count old_pages and index length L, the
\* index segment is placed at old_pages * 65536 and the emitted memory
\* section declares exactly old_pages + floor(L / 65536) + 1 initial pages.
C13_MemoryGrown ==
    Emitted =>
        /\ EmittedSegments[Len(EmittedSegments)].offset
              = <<[op |-> "i32.const", value |-> InputPages * 65536]>>
        /\ \A i \in 1..Len(docfind_bg_wasm) :
            docfind_bg_wasm[i].sec = "Memory" =>
                /\ wasm_bytes.value[i].sec = "Memory"
                /\ Len(wasm_bytes.value[i].memories) = 1
                /\ wasm_bytes.value[i].memories[1].minimum
                      = InputPages + (raw_index.len \div 65536) + 1

\* C13's case: a module of two pages was written with an index whose
\* length is an exact multiple of 65536.
C13_Witness ==
    /\ cli_exit = "ok"
    /\ InputPages = 2
    /\ raw_index.len > 0
    /\ raw_index.len % 65536 = 0
    /\ MemoriesOf(wasm_bytes.value)[1].minimum = 4

\* What the output keeps of the input apart from the memory section: the
\* raw sections, the segments without the INDEX_BASE address, and the
\* bytes of a patched segment outside the two words.
InWord(k, at) == k > at /\ k <= at + 4

FrameOutsideMemory ==
    /\ Len(wasm_bytes.value) = Len(docfind_bg_wasm)
    /\ \A i \in 1..Len(docfind_bg_wasm) :
        LET input == docfind_bg_wasm[i]
            output == wasm_bytes.value[i]
        IN /\ input.sec \notin {"Memory", "DataCount", "Data"} =>
                output = [sec |-> "Raw", id |-> input.id, data |-> input.data]
           /\ input.sec = "Data" =>
                \A j \in 1..Len(input.segments) :
                    LET segment == input.segments[j]
                        emitted == output.segments[j]
                    IN /\ emitted.kind = segment.kind
                       /\ segment.kind = "Active" =>
                            /\ emitted.memory_index = segment.memory_index
                            /\ emitted.offset = segment.offset_expr
                       /\ Len(emitted.data) = Len(segment.data)
                       /\ \A k \in 1..Len(segment.data) :
                            emitted.data[k] /= segment.data[k] =>
                                /\ Contains(segment, index_base_global_address)
                                /\ \/ InWord(k, index_base_global_address
                                                - segment.offset_expr[1].value)
                                   \/ InWord(k, index_len_global_address
                                                - segment.offset_expr[1].value)

\* C14 as stated: the output equals the input except for the four changes,
\* the memory section differing only in its initial page count.
C14_Original_MemoryKeepsItsLimits ==
    Emitted =>
        /\ FrameOutsideMemory
        /\ \A i \in 1..Len(docfind_bg_wasm) :
            docfind_bg_wasm[i].sec = "Memory" =>
                /\ Len(wasm_bytes.value[i].memories) = Len(docfind_bg_wasm[i].memories)
                /\ \A m \in 1..Len(docfind_bg_wasm[i].memories) :
                    /\ wasm_bytes.value[i].memories[m].maximum
                          = docfind_bg_wasm[i].memories[m].maximum
                    /\ wasm_bytes.value[i].memories[m].memory64
                          = docfind_bg_wasm[i].memories[m].memory64
                    /\ wasm_bytes.value[i].memories[m].shared
                          = docfind_bg_wasm[i].memories[m].shared

\* C14, amended: the output equals the input except for the DataCount
\* count, the appended segment, the two sentinel words, and the memory
\* section, which is replaced by one unshared 32-bit memory of new_pages
\* initial pages and no maximum, whatever limits the input declared.
C14_FrameWithMemoryReplaced ==
    Emitted =>
        /\ FrameOutsideMemory
        /\ \A i \in 1..Len(docfind_bg_wasm) :
            docfind_bg_wasm[i].sec = "Memory" =>
                wasm_bytes.value[i] =
                    [sec |-> "Memory",
                     memories |-> <<[minimum |-> InputPages + (raw_index.len \div 65536) + 1,
                                     maximum |-> None, memory64 |-> FALSE,
                                     shared |-> FALSE]>>]

\* C14's case: a module whose memory declares a maximum was written, with
\* its sentinel segment patched and its other segments and sections kept.
C14_Witness ==
    /\ cli_exit = "ok"
    /\ MemoriesOf(docfind_bg_wasm)[1].maximum /= None
    /\ MemoriesOf(wasm_bytes.value)[1].maximum = None
    /\ \E j \in 1..Len(InputSegments) : EmittedSegments[j].data /= InputSegments[j].data
    /\ \E j \in 1..Len(InputSegments) : InputSegments[j].kind = "Passive"

\* The initializer of the global an export of the name points at
Exported(name) == \E i \in 1..Len(AllExports(docfind_bg_wasm)) :
                     AllExports(docfind_bg_wasm)[i].name = name

GlobalInits ==
    Concat([i \in 1..Len(docfind_bg_wasm) |->
               IF docfind_bg_wasm[i].sec = "Global" THEN docfind_bg_wasm[i].inits ELSE <<>>])

SentinelInit(name) == GlobalInits[ExportIndex(docfind_bg_wasm, name).value + 1]

IsSingleI32Const(expr) == Len(expr) = 1 /\ expr[1].op = "i32.const"

\* The embedded module lacks what the claim asks of it
MissingSentinel ==
    \/ ~Exported("INDEX_BASE")
    \/ ~Exported("INDEX_LEN")
    \/ ~IsSingleI32Const(SentinelInit("INDEX_BASE"))
    \/ ~IsSingleI32Const(SentinelInit("INDEX_LEN"))
    \/ ~\E j \in 1..Len(InputSegments) :
            /\ Contains(InputSegments[j], SentinelInit("INDEX_BASE")[1].value)
            /\ Contains(InputSegments[j], SentinelInit("INDEX_LEN")[1].value)

\* C15: when the embedded module lacks an INDEX_BASE or INDEX_LEN export,
\* or a sentinel global's initializer is not a single i32.const, or no data
\* segment contains both sentinel addresses, the build fails and no module
\* is written.
C15_MissingSentinelFails ==
    (cli_pc \notin {"idle", "args", "read", "build"} /\ MissingSentinel) =>
        /\ cli_exit /= "ok"
        /\ out_dir.wasm = "absent"

\* C16: in every run of the CLI that ends with an error, at whatever step,
\* neither docfind.js nor docfind_bg.wasm has been created or written in
\* the output directory by that run.
C16_NoPartialOutputs ==
    cli_exit \in {"exit1", "err", "panic"} => out_dir = NoFiles

(***************************************************************************)
(* Properties of search on a corrupt index                                 *)
(***************************************************************************)

\* A hit keyword's value is beyond the posting lists, or a posting list a
\* hit reaches names a document beyond the column
HitIsCorrupt(hit) ==
    \/ hit.index >= Len(index.keyword_to_documents)
    \/ \E p \in Range(index.keyword_to_documents[hit.index + 1]) :
          4 * p[1] + 3 >= VecLen(index.document_strings)

\* C17: whenever a hit keyword's FST value is not below the number of
\* posting lists, or a posting list reached by the query holds a doc_index
\* d with 4*d+3 not below the column length, search returns Err, for
\* every max_results.
C17_CorruptIndexIsAnError ==
    (pc = "done" /\ \E h \in 1..Len(keywords) : HitIsCorrupt(keywords[h]))
        => result.tag = "Err"

(***************************************************************************)
(* Properties of the wasm crate's latch                                    *)
(***************************************************************************)

\* C18: over any interleaving of calls of the exported search, the index
\* is decoded from the memory range at most once; every call running the
\* core search does so on the published Index, which is the one that
\* decode made; and the published Index never changes.
C18_DecodedOnce ==
    /\ [](/\ decodes <= 1
          /\ \A c \in DOMAIN call_pc :
                call_pc[c] = "search" =>
                    /\ INDEX.state = "complete"
                    /\ call_index[c] = INDEX.value
          /\ INDEX.state = "complete" =>
                INDEX.value = Some([index |-> FromBytes(memory).value, decode |-> 1]))
    /\ [][INDEX.state = "complete" => INDEX' = INDEX]_vars

\* Two calls have been in flight, one decoded, and the other runs the core
\* search on the published Index
C18_Witness ==
    /\ decodes = 1
    /\ INDEX.state = "complete"
    /\ \E c, d \in DOMAIN call_pc :
        /\ c /= d
        /\ call_pc[c] = "search"
        /\ call_pc[d] = "search"
        /\ call_index[c] = INDEX.value
        /\ call_index[d] = INDEX.value

(***************************************************************************)
(* Properties of the written module at instantiation                       *)
(***************************************************************************)

\* Length and bytes (from 0) of a segment's data; the index segment holds
\* raw_index
DataLen(data) == IF data = raw_index THEN raw_index.len ELSE Len(data)
DataByte(data, i) == IF data = raw_index THEN RawIndexByte(raw_index, i) ELSE data[i + 1]

\* The active segment writes the byte at address
Writes(segment, address) ==
    /\ segment.kind = "Active"
    /\ segment.offset[1].value <= address
    /\ address < segment.offset[1].value + DataLen(segment.data)

\* The byte at address once the first n segments have been applied in
\* order to a zeroed memory
RECURSIVE MemByte(_, _, _)
MemByte(segments, n, address) ==
    IF n = 0 THEN 0
    ELSE IF Writes(segments[n], address)
         THEN DataByte(segments[n].data, address - segments[n].offset[1].value)
         ELSE MemByte(segments, n - 1, address)

\* The 32-bit word a load at address reads after instantiation
MemWord(address) ==
    LET b(k) == MemByte(EmittedSegments, Len(EmittedSegments), address + k)
    IN b(0) + 256 * b(1) + 65536 * b(2) + 16777216 * b(3)

EmittedPages == MemoriesOf(wasm_bytes.value)[1].minimum

\* C19: after the written module's active data segments are applied in
\* order to a memory of new_pages pages, the word at the INDEX_BASE address
\* is index_base, the word at the INDEX_LEN address is raw_index.len(), and
\* the raw_index.len() bytes from index_base on are raw_index.
C19_BuildAndRuntimeAgree ==
    cli_exit = "ok" =>
        /\ \A j \in 1..Len(EmittedSegments) :
              EmittedSegments[j].kind = "Active" =>
                  EmittedSegments[j].offset[1].value + DataLen(EmittedSegments[j].data)
                      <= EmittedPages * PageSize
        /\ MemWord(index_base_global_address) = InputPages * PageSize
        /\ MemWord(index_len_global_address) = raw_index.len
        /\ \A i \in 0..(raw_index.len - 1) :
              MemByte(EmittedSegments, Len(EmittedSegments), InputPages * PageSize + i)
                  = RawIndexByte(raw_index, i)

(***************************************************************************)
(* Properties of the index build_index returns                             *)
(***************************************************************************)

\* The distinct keywords of the documents, as the byte strings the FST holds
KeywordBytes ==
    {AsBytes(k) : k \in UNION {KeywordsOf(DocKeywords(docs[i], rake_out[i])) :
                                  i \in 1..Len(docs)}}

\* C20: the index build_index returns holds in its FST exactly the distinct
\* keywords, in strictly increasing byte order, mapped to 0..n-1 with n the
\* number of posting lists, and every doc_index of every posting list is
\* below column.len() / 4.
C20_BuiltIndexInvariants ==
    pc /= "input" =>
        LET entries == FstEntries(built.fst)
            n == Len(built.keyword_to_documents)
        IN /\ Len(entries) = n
           /\ {entries[i].key : i \in 1..n} = KeywordBytes
           /\ \A i \in 1..n : entries[i].value = i - 1
           /\ \A i \in 1..(n - 1) : BytesLess(entries[i].key, entries[i + 1].key)
           /\ \A i \in 1..n :
                 \A j \in 1..Len(built.keyword_to_documents[i]) :
                     built.keyword_to_documents[i][j][1]
                         < VecLen(built.document_strings) \div 4

\* C20's case: two documents share their href, so that doc_index_map holds
\* the second for both, and the index has several keywords
C20_Witness ==
    /\ pc = "ready"
    /\ Len(docs) = 2
    /\ docs[1] /= docs[2]
    /\ docs[1].href = docs[2].href
    /\ Len(built.keyword_to_documents) >= 3
    /\ \E i \in 1..Len(built.keyword_to_documents) :
          \A j \in 1..Len(built.keyword_to_documents[i]) :
              built.keyword_to_documents[i][j][1] = 1

(***************************************************************************)
(* Properties of the posting lists and of keyword extraction               *)
(***************************************************************************)

UniqueHrefs == \A i, j \in 1..Len(docs) : docs[i].href = docs[j].href => i = j

\* The f64 score (in tenths) with which the document at doc_index emitted
\* the keyword
EmittedScore(doc_index, keyword) ==
    LET kws == DocKeywords(docs[doc_index + 1], rake_out[doc_index + 1])
        at == CHOOSE j \in 1..Len(kws) : kws[j].keyword = keyword
    IN kws[at].score

\* Posting a stands before posting b by stored score, then doc_index
StoredBefore(a, b) == a[2] > b[2] \/ (a[2] = b[2] /\ a[1] < b[1])

\* C21 as stated: with unique hrefs, every posting list is non-empty and
\* ordered by stored u8 score descending, ties broken by doc_index
\* ascending.
C21_Original_OrderedByStoredScore ==
    (pc /= "input" /\ UniqueHrefs) =>
        \A i \in 1..Len(built.keyword_to_documents) :
            LET list == built.keyword_to_documents[i]
            IN /\ Len(list) > 0
               /\ \A j \in 1..(Len(list) - 1) : StoredBefore(list[j], list[j + 1])

\* C21 amended: with unique hrefs, every posting list is non-empty, its
\* stored u8 scores never increase, and its entries are ordered by the f64
\* score the keyword had in each document, descending, ties in that score
\* broken by doc_index ascending.
C21_OrderedByExtractedScore ==
    (pc /= "input" /\ UniqueHrefs) =>
        \A i \in 1..Len(built.keyword_to_documents) :
            LET list == built.keyword_to_documents[i]
                keyword == SortedKeywords(docs, rake_out)[i]
                score(j) == EmittedScore(list[j][1], keyword)
            IN /\ Len(list) > 0
               /\ \A j \in 1..(Len(list) - 1) :
                     /\ list[j][2] >= list[j + 1][2]
                     /\ \/ score(j) > score(j + 1)
                        \/ score(j) = score(j + 1) /\ list[j][1] < list[j + 1][1]

\* C21's case: two documents with different hrefs share a keyword whose
\* scores differ as f64 and are equal as u8, the later document's higher
C21_Witness ==
    /\ pc = "ready"
    /\ UniqueHrefs
    /\ \E i \in 1..Len(built.keyword_to_documents) :
          LET list == built.keyword_to_documents[i]
          IN /\ Len(list) = 2
             /\ list[1][2] = list[2][2]
             /\ list[1][1] > list[2][1]

\* The valid normalized explicit keywords of the document, those of the
\* first n entries of doc.keywords
ExplicitSet(n) ==
    IF ex_doc.keywords.tag = "Some"
    THEN {w \in {Normalize(ex_doc.keywords.value[i]) :
                    i \in 1..Min(n, Len(ex_doc.keywords.value))} :
             w /= <<>> /\ w \notin StopWords}
    ELSE {}

NumExplicit == IF ex_doc.keywords.tag = "Some" THEN Len(ex_doc.keywords.value) ELSE 0

ExplicitTaken == IF ex_pc = "explicit" THEN ex_pos ELSE NumExplicit

\* The text a body phrase is emitted and compared as
PhraseText(p) == ToLowercase(ex_body[p].keyword)

\* The entries of keywords that hold the keyword
EntriesOf(keyword) == {i \in 1..Len(ex_keywords) : ex_keywords[i].keyword = keyword}

\* C22: keyword extraction for one document emits each keyword at most
\* once, with the score of the first rule that produces it: 100 for a valid
\* explicit keyword, 90 for a valid title word that is not an explicit
\* keyword, and a body phrase is emitted only when no explicit keyword,
\* title keyword or earlier body phrase has its text.
C22_FirstRuleWins ==
    ex_pc /= "idle" =>
        /\ keyword_set = {ex_keywords[i].keyword : i \in 1..Len(ex_keywords)}
        /\ \A i, j \in 1..Len(ex_keywords) :
              ex_keywords[i].keyword = ex_keywords[j].keyword => i = j
        /\ \A w \in ExplicitSet(ExplicitTaken) :
              \E i \in EntriesOf(w) : ex_keywords[i].score = 100 * ScoreUnit
        /\ \A w \in TitleKeywordSet(ex_doc.title) :
              /\ (ex_pc \in {"body", "done"} /\ w \notin ExplicitSet(ExplicitTaken)) =>
                    \E i \in EntriesOf(w) : ex_keywords[i].score = 90 * ScoreUnit
              /\ w \in ExplicitSet(ExplicitTaken) =>
                    \A i \in EntriesOf(w) : ex_keywords[i].score = 100 * ScoreUnit
        /\ \A p \in accepted :
              /\ PhraseText(p) \notin ExplicitSet(ExplicitTaken)
              /\ PhraseText(p) \notin TitleKeywordSet(ex_doc.title)
              /\ \A q \in accepted : PhraseText(q) = PhraseText(p) => q = p
              /\ \E i \in EntriesOf(PhraseText(p)) : ex_keywords[i].score = ex_body[p].score

\* C22's case: the extraction ended after an explicit keyword came twice,
\* a title word was an explicit keyword, another was not, a body phrase had
\* the text of a title keyword and another body phrase was emitted
C22_Witness ==
    /\ ex_pc = "done"
    /\ \E i, j \in 1..NumExplicit :
          i /= j /\ Normalize(ex_doc.keywords.value[i]) = Normalize(ex_doc.keywords.value[j])
    /\ TitleKeywordSet(ex_doc.title) \cap ExplicitSet(ExplicitTaken) /= {}
    /\ TitleKeywordSet(ex_doc.title) \ ExplicitSet(ExplicitTaken) /= {}
    /\ \E p \in 1..ex_pos : PhraseText(p) \in TitleKeywordSet(ex_doc.title)
    /\ accepted /= {}

\* The phrases pushed before position p that have n spaces
AcceptedBefore(p, n) == {q \in accepted : q < p /\ SpaceCount(ex_body[q].keyword) = n}

\* The phrase at p has the text of no keyword emitted before it is examined
Unseen(p) ==
    /\ PhraseText(p) \notin ExplicitSet(NumExplicit)
    /\ PhraseText(p) \notin TitleKeywordSet(ex_doc.title)
    /\ \A q \in accepted : q < p => PhraseText(q) /= PhraseText(p)

\* C23: while the body phrases are scanned, the two budgets never go below
\* zero and are what the accepted phrases have left of 5 and 3; a phrase is
\* accepted exactly when it is unseen and is among the first 5 accepted with
\* no space or the first 3 accepted with one space; no phrase is examined
\* after both budgets reach zero.
C23_Budgets ==
    ex_pc \in {"body", "done"} =>
        /\ single_word_budget >= 0
        /\ double_word_budget >= 0
        /\ single_word_budget = 5 - Cardinality(AcceptedBefore(ex_pos + 1, 0))
        /\ double_word_budget = 3 - Cardinality(AcceptedBefore(ex_pos + 1, 1))
        /\ accepted \subseteq 1..ex_pos
        /\ \A p \in 1..ex_pos :
              p \in accepted <=>
                  /\ Unseen(p)
                  /\ \/ /\ SpaceCount(ex_body[p].keyword) = 0
                        /\ Cardinality(AcceptedBefore(p, 0)) < 5
                     \/ /\ SpaceCount(ex_body[p].keyword) = 1
                        /\ Cardinality(AcceptedBefore(p, 1)) < 3
        /\ (single_word_budget = 0 /\ double_word_budget = 0) =>
              /\ ex_pc = "done"
              /\ ex_pos \in accepted

\* C23's case: both budgets reached zero with phrases left, after a seen
\* phrase, an unseen single word refused for its budget and 8 acceptances
C23_Witness ==
    /\ ex_pc = "done"
    /\ single_word_budget = 0
    /\ double_word_budget = 0
    /\ ex_pos < Len(ex_body)
    /\ Cardinality(accepted) = 8
    /\ \E p \in 1..ex_pos : ~Unseen(p)
    /\ \E p \in 1..ex_pos :
          Unseen(p) /\ p \notin accepted /\ SpaceCount(ex_body[p].keyword) = 0

\* C24: every keyword emitted, from explicit keywords, title words or body
\* phrases, is lower-cased, has no leading or trailing non-alphanumeric
\* character, is non-empty and is not a stop word.
C24_KeywordsNormalized ==
    \A i \in 1..Len(ex_keywords) :
        LET keyword == ex_keywords[i].keyword
        IN /\ ToLowercase(keyword) = keyword
           /\ TrimNonAlnum(keyword) = keyword
           /\ keyword /= <<>>
           /\ keyword \notin StopWords

(***************************************************************************)
(* Properties of the union of the two automata                             *)
(***************************************************************************)

\* The query words whose Levenshtein automaton, prefix automaton, or either
\* of the two accepts the key of entry e of the map
LevWords(e) == {w \in QueryWords(query) : LevMatches(w, map[e].key)}
PrefixWords(e) == {w \in QueryWords(query) : PrefixMatches(w, map[e].key)}
MatchingWords(e) == LevWords(e) \cup PrefixWords(e)

\* The hits recorded for entry e of the map
HitsOf(e) == {i \in 1..Len(keywords) : keywords[i].index = map[e].value}

\* The loop over the query words has ended without an error
LookupOver == pc \in {"sort", "merge"} \/ Finished

\* What document d gets from the first n entries of the map when each
\* entry's posting list is added once per query word that matches it
RECURSIVE MatchSum(_, _)
MatchSum(d, n) ==
    IF n = 0 THEN 0
    ELSE MatchSum(d, n - 1)
         + Cardinality(MatchingWords(n))
           * PostingScore(index.keyword_to_documents[map[n].value + 1], d)

\* C25 as stated: for one query term, a keyword matched by both automata
\* is recorded as two hits (one per automaton that accepts it).
C25_Original_BothAutomataTwoHits ==
    LookupOver =>
        \A e \in 1..Len(map) :
            Cardinality(HitsOf(e)) = Cardinality(LevWords(e)) + Cardinality(PrefixWords(e))

\* C25 amended: the union yields a keyword once per query term, whether
\* one automaton or both accept it: a keyword has one hit for every query
\* term that matches it, and its posting list is added to the document
\* scores once per such term.
C25_OneHitPerTerm ==
    LookupOver =>
        /\ \A e \in 1..Len(map) : Cardinality(HitsOf(e)) = Cardinality(MatchingWords(e))
        /\ Finished =>
              \A d \in 0..MaxDocs : HitSum(d, Len(keywords)) = MatchSum(d, Len(map))

\* C25's case: a search has returned documents after a query term matched
\* a keyword with both automata, which has one hit
C25_Witness ==
    /\ Finished
    /\ Len(ranked) >= 1
    /\ \E e \in 1..Len(map) :
          /\ LevWords(e) \cap PrefixWords(e) /= {}
          /\ Cardinality(HitsOf(e)) = 1

(***************************************************************************)
(* Properties of where the index segment lies                              *)
(***************************************************************************)

\* The appended segment of the emitted module
AppendedSegment == EmittedSegments[Len(EmittedSegments)]

\* C26: the appended segment starts at old_pages * 65536 and ends inside
\* the declared new_pages pages, and its range is disjoint from every
\* active data segment of the input that fits within the old_pages pages.
C26_IndexSegmentInsideAndAbove ==
    Emitted =>
        LET index_base == AppendedSegment.offset[1].value
            L == DataLen(AppendedSegment.data)
        IN /\ L = raw_index.len
           /\ index_base = InputPages * 65536
           /\ index_base + L <= EmittedPages * 65536
           /\ \A j \in 1..Len(InputSegments) :
                 LET segment == InputSegments[j]
                 IN (/\ segment.kind = "Active"
                     /\ Len(segment.offset_expr) = 1
                     /\ segment.offset_expr[1].op = "i32.const"
                     /\ segment.offset_expr[1].value + Len(segment.data)
                           <= InputPages * 65536)
                    => \A a \in segment.offset_expr[1].value ..
                                  (segment.offset_expr[1].value + Len(segment.data) - 1) :
                           a < index_base \/ a >= index_base + L

\* C26's case: a two-page module whose sentinel segment was patched was
\* written with an index that fills whole pages
C26_Witness ==
    /\ cli_exit = "ok"
    /\ InputPages = 2
    /\ raw_index.len >= 65536
    /\ raw_index.len % 65536 = 0
    /\ AppendedSegment.offset[1].value + raw_index.len = (EmittedPages - 1) * 65536
    /\ \E j \in 1..Len(InputSegments) :
          Contains(InputSegments[j], index_base_global_address)

=============================================================================
